---- MODULE Spec2Model ----
(***************************************************************************)
(* A model of the GTFS editor's data engine (AlvaroTrabanco/gtfs-editor).  *)
(*                                                                         *)
(* Strings that the code parses (times) are tuples of one-character        *)
(* strings, so that the regular expressions of the code are modelled by    *)
(* what they match.  Identifiers (trip_id, stop_id, route_id) are tuples   *)
(* of tokens, so that `${trip_id}__segA` and `${trip_id}::${stop_id}` are  *)
(* concatenations.  An array of object references is a sequence of         *)
(* indices into the array that owns the objects.                           *)
(***************************************************************************)
EXTENDS Integers, Sequences, FiniteSets, TLC

VARIABLES
    routes,        \* routes.txt rows, each reduced to its route_id
    trips,         \* trips.txt rows
    stopTimes,     \* stop_times.txt rows
    stops,         \* stops.txt rows, each reduced to its stop_id
    restrictions,  \* project.extras.restrictions : key -> rule
    selectedStopId,\* the stop selected on the map, or NoStop
    compiled,      \* what the last compileTripsWithOD call returned
    banner,        \* the banner shown, or NoBanner
    call,          \* the arguments of the function or component evaluated
    returned,      \* what that evaluation returned, or Pending
    inflight,      \* the async function that is awaiting, with its closure
    requests,      \* the requests sent to GitHub, in order
    builder,       \* the seven tables of the builder
    builderUi,     \* the route and the trip selected in the builder
    history,       \* historyRef.current of the builder
    lastHash       \* lastHashRef.current of the builder

\* the state of the editor's async functions and of the upload function
asyncVars == <<inflight, requests>>

\* the state of the builder
builderVars == <<builder, builderUi, history, lastHash>>

vars == <<routes, trips, stopTimes, stops, restrictions, selectedStopId, compiled,
          banner, call, returned, asyncVars, builderVars>>

\* no async function is awaiting
NoFlight == [fn |-> "none"]

\* the builder is not open
NoBuilder == [open |-> FALSE]

\* banner === null
NoBanner == <<>>

\* no function is being evaluated
NoCall == [fn |-> "none"]

\* the evaluation has not returned yet
Pending == [done |-> FALSE]

\* selectedStopId === null
NoStop == <<>>

----------------------------------------------------------------------------
(* Strings *)

Digits == {"0", "1", "2", "3", "4", "5", "6", "7", "8", "9"}

IsDigits(s) == \A i \in 1..Len(s) : s[i] \in Digits

\* String.prototype.padStart(2, "0")
padStart2(s) ==
    IF Len(s) >= 2 THEN s
    ELSE IF Len(s) = 1 THEN <<"0">> \o s
    ELSE <<"0", "0">>

\* the length of the hour group of /^(\d{1,2}):(\d{2})(?::(\d{2}))?$/
hourLen(s) == IF Len(s) >= 2 /\ s[2] = ":" THEN 1 ELSE 2

\* does s match /^(\d{1,2}):(\d{2})(?::(\d{2}))?$/
matchHMS(s) ==
    LET h == hourLen(s) IN
    /\ Len(s) \in {h + 3, h + 6}
    /\ IsDigits(SubSeq(s, 1, h))
    /\ s[h + 1] = ":"
    /\ IsDigits(SubSeq(s, h + 2, h + 3))
    /\ (Len(s) = h + 6 => s[h + 4] = ":" /\ IsDigits(SubSeq(s, h + 5, h + 6)))

\* Export helper: HH:MM -> HH:MM:SS
toHHMMSS(s) ==
    IF s = <<>> THEN <<>>
    ELSE IF ~matchHMS(s) THEN s
    ELSE LET h == hourLen(s) IN
         padStart2(SubSeq(s, 1, h)) \o <<":">> \o SubSeq(s, h + 2, h + 3) \o <<":">>
           \o (IF Len(s) = h + 6 THEN padStart2(SubSeq(s, h + 5, h + 6)) ELSE <<"0", "0">>)

\* const num = (x, def = 0) => Number.isFinite(Number(x)) ? Number(x) : def
num(x) == IF x \in Int THEN x ELSE 0

----------------------------------------------------------------------------
(* Sequences *)

Indices(s) == [i \in 1..Len(s) |-> i]

RECURSIVE Flatten(_)
Flatten(ss) == IF ss = <<>> THEN <<>> ELSE Head(ss) \o Flatten(Tail(ss))

\* the distinct values of f over s, in the order of their first occurrence
RECURSIVE FirstOccurrences(_)
FirstOccurrences(s) ==
    IF s = <<>> THEN <<>>
    ELSE LET rest == FirstOccurrences(SubSeq(s, 1, Len(s) - 1))
             x    == s[Len(s)]
         IN IF \E i \in 1..Len(rest) : rest[i] = x THEN rest ELSE Append(rest, x)

----------------------------------------------------------------------------
(* Derived maps *)

\* Array.prototype.sort with (a,b) => num(a.stop_sequence) - num(b.stop_sequence):
\* a stable sort of row references by stop_sequence
RECURSIVE sortBySequence(_, _)
sortBySequence(refs, sts) ==
    IF refs = <<>> THEN <<>>
    ELSE LET sorted == sortBySequence(SubSeq(refs, 1, Len(refs) - 1), sts)
             x      == refs[Len(refs)]
             n      == Cardinality({i \in 1..Len(sorted) :
                          num(sts[sorted[i]].stop_sequence) <= num(sts[x].stop_sequence)})
         IN SubSeq(sorted, 1, n) \o <<x>> \o SubSeq(sorted, n + 1, Len(sorted))

\* stopTimesByTrip.get(trip_id) ?? [] : references to the rows of the trip,
\* sorted by stop_sequence
stopTimesByTrip(sts, trip_id) ==
    LET ofTrip(i) == sts[i].trip_id = trip_id
    IN sortBySequence(SelectSeq(Indices(sts), ofTrip), sts)

----------------------------------------------------------------------------
(* OD compiler *)

\* `${trip_id}::${stop_id}`
restrictionKey(trip_id, stop_id) == trip_id \o <<"::">> \o stop_id

\* const r = restrictions[key]; if (r && r.mode) rulesByIdx.set(i, r);
\* and later rulesByIdx.get(i)?.mode
ruleMode(rs, trip_id, stop_id) ==
    LET key == restrictionKey(trip_id, stop_id)
    IN IF key \in DOMAIN rs /\ rs[key].mode # "" THEN rs[key].mode ELSE "undefined"

\* rows.indexOf(st) for a row reference st
indexOf(rows, st) == CHOOSE k \in 1..Len(rows) :
    rows[k] = st /\ \A j \in 1..(k - 1) : rows[j] # st

\* the flags of a row of a trip without a custom rule
flagsPlain_swapped(mode) ==
    [pickup_type   |-> IF mode = "pickup" THEN 1 ELSE 0,
     drop_off_type |-> IF mode = "dropoff" THEN 1 ELSE 0]

flagsPlain(mode) ==
    [pickup_type   |-> IF mode = "dropoff" THEN 1 ELSE 0,
     drop_off_type |-> IF mode = "pickup" THEN 1 ELSE 0]

\* the flags of a row of segment A
flagsSegA_customAsPickup(mode) ==
    IF mode = "pickup" THEN [pickup_type |-> 0, drop_off_type |-> 1]
    ELSE IF mode = "dropoff" THEN [pickup_type |-> 1, drop_off_type |-> 0]
    ELSE IF mode = "custom" THEN [pickup_type |-> 0, drop_off_type |-> 1]
    ELSE [pickup_type |-> 0, drop_off_type |-> 0]

flagsSegA(mode) ==
    IF mode = "pickup" THEN [pickup_type |-> 0, drop_off_type |-> 1]
    ELSE IF mode = "dropoff" THEN [pickup_type |-> 1, drop_off_type |-> 0]
    ELSE IF mode = "custom" THEN [pickup_type |-> 1, drop_off_type |-> 0]
    ELSE [pickup_type |-> 0, drop_off_type |-> 0]

\* the flags of a row of segment B
flagsSegB_customAsDropoff(mode) ==
    IF mode = "pickup" THEN [pickup_type |-> 0, drop_off_type |-> 1]
    ELSE IF mode = "dropoff" THEN [pickup_type |-> 1, drop_off_type |-> 0]
    ELSE IF mode = "custom" THEN [pickup_type |-> 1, drop_off_type |-> 0]
    ELSE [pickup_type |-> 0, drop_off_type |-> 0]

flagsSegB(mode) ==
    IF mode = "pickup" THEN [pickup_type |-> 0, drop_off_type |-> 1]
    ELSE IF mode = "dropoff" THEN [pickup_type |-> 1, drop_off_type |-> 0]
    ELSE IF mode = "custom" THEN [pickup_type |-> 0, drop_off_type |-> 1]
    ELSE [pickup_type |-> 0, drop_off_type |-> 0]

\* if (!arr && !dep) continue;
skipRow_eitherBlank(arr, dep) == arr = <<>> \/ dep = <<>>

skipRow(arr, dep) == arr = <<>> /\ dep = <<>>

\* if (!rows.length) continue;
skipTrip_never(rows) == FALSE

skipTrip(rows) == Len(rows) = 0

\* for (let i = 0; i <= lastC; i++)
segAEnd_firstCustom(customIdxs) ==
    CHOOSE i \in customIdxs : \A j \in customIdxs : i <= j

segAEnd(customIdxs) ==
    CHOOSE i \in customIdxs : \A j \in customIdxs : j <= i

\* for (let i = firstC; i < rows.length; i++)
segBStart_lastCustom(customIdxs) ==
    CHOOSE i \in customIdxs : \A j \in customIdxs : j <= i

segBStart(customIdxs) ==
    CHOOSE i \in customIdxs : \A j \in customIdxs : i <= j

\* outStopTimes.push({ trip_id, stop_id, stop_sequence: 0, ... }): a new object.
\* src, seg and object are not fields of the program's row: src is the
\* reference of the source row, seg the loop that pushed the row, and object
\* tells whether the pushed object is a new literal or the source row itself.
pushedRow_sourceObject(trip_id, src, st, arr, dep, flags, seg) ==
    [trip_id |-> trip_id, stop_id |-> st.stop_id, stop_sequence |-> 0,
     arrival_time |-> arr, departure_time |-> dep,
     pickup_type |-> flags.pickup_type, drop_off_type |-> flags.drop_off_type,
     src |-> src, seg |-> seg, object |-> "source"]

pushedRow(trip_id, src, st, arr, dep, flags, seg) ==
    [trip_id |-> trip_id, stop_id |-> st.stop_id, stop_sequence |-> 0,
     arrival_time |-> arr, departure_time |-> dep,
     pickup_type |-> flags.pickup_type, drop_off_type |-> flags.drop_off_type,
     src |-> src, seg |-> seg, object |-> "literal"]

\* arr.forEach((st, i) => (st.stop_sequence = i + 1))
renumber_fromZero(arr) == [i \in 1..Len(arr) |-> [arr[i] EXCEPT !.stop_sequence = i - 1]]

renumber(arr) == [i \in 1..Len(arr) |-> [arr[i] EXCEPT !.stop_sequence = i]]

\* one iteration of `for (const t of trips)`: what it pushes to outTrips and
\* to outStopTimes
compileTrip(t, sts, rs) ==
    LET rows       == stopTimesByTrip(sts, t.trip_id)
        modeAt(i)  == ruleMode(rs, t.trip_id, sts[rows[i]].stop_id)
        customIdxs == {i \in 1..Len(rows) : modeAt(i) = "custom"}
        kept(r)    == ~skipRow(r.arrival_time, r.departure_time)
        plainRow(i) ==
            LET st == sts[rows[i]]
            IN pushedRow(t.trip_id, rows[i], st, toHHMMSS(st.arrival_time),
                         toHHMMSS(st.departure_time),
                         flagsPlain(modeAt(indexOf(rows, rows[i]))), "plain")
        upId   == t.trip_id \o <<"__segA">>
        downId == t.trip_id \o <<"__segB">>
        upRow(i) ==
            LET st == sts[rows[i]]
            IN pushedRow(upId, rows[i], st, toHHMMSS(st.arrival_time),
                         toHHMMSS(st.departure_time), flagsSegA(modeAt(i)), "A")
        downRow(i) ==
            LET st == sts[rows[i]]
            IN pushedRow(downId, rows[i], st, toHHMMSS(st.arrival_time),
                         toHHMMSS(st.departure_time), flagsSegB(modeAt(i)), "B")
    IN IF skipTrip(rows) THEN [trips |-> <<>>, stop_times |-> <<>>]
       ELSE IF customIdxs = {} THEN
           [trips      |-> <<t>>,
            stop_times |-> SelectSeq([i \in 1..Len(rows) |-> plainRow(i)], kept)]
       ELSE
           LET lastC  == segAEnd(customIdxs)
               firstC == segBStart(customIdxs)
           IN [trips      |-> <<[t EXCEPT !.trip_id = upId], [t EXCEPT !.trip_id = downId]>>,
               stop_times |->
                   SelectSeq([i \in 1..lastC |-> upRow(i)], kept)
                   \o SelectSeq([k \in 1..(Len(rows) - firstC + 1) |-> downRow(firstC + k - 1)],
                                kept)]

\* grouped.get(trip_id): the pushed rows with that trip_id, in push order
groupOf(outStopTimes, trip_id) ==
    LET withId(r) == r.trip_id = trip_id
    IN SelectSeq(outStopTimes, withId)

compileTripsWithOD(ts, sts, rs) ==
    LET per          == [i \in 1..Len(ts) |-> compileTrip(ts[i], sts, rs)]
        outTrips     == Flatten([i \in 1..Len(ts) |-> per[i].trips])
        outStopTimes == Flatten([i \in 1..Len(ts) |-> per[i].stop_times])
        groupIds     == FirstOccurrences([k \in 1..Len(outStopTimes) |->
                                            outStopTimes[k].trip_id])
        finalStopTimes ==
            Flatten([g \in 1..Len(groupIds) |-> renumber(groupOf(outStopTimes, groupIds[g]))])
    IN [trips |-> outTrips, stop_times |-> finalStopTimes]

\* the source rows after the renumbering pass: the pass assigns stop_sequence
\* on the pushed objects, which changes a source row only if the pushed object
\* is that row
afterRenumber(sts, finalStopTimes) ==
    [i \in 1..Len(sts) |->
        LET writes == {k \in 1..Len(finalStopTimes) :
                          finalStopTimes[k].object = "source" /\ finalStopTimes[k].src = i}
        IN IF writes = {} THEN sts[i]
           ELSE LET last == CHOOSE k \in writes : \A j \in writes : j <= k
                IN [sts[i] EXCEPT !.stop_sequence = finalStopTimes[last].stop_sequence]]

NotCompiled == [trips |-> <<>>, stop_times |-> <<>>, called |-> FALSE]

\* exportGtfsCompiled: const { trips, stop_times } = compileTripsWithOD(restrictions)
ExportCompiled ==
    LET res == compileTripsWithOD(trips, stopTimes, restrictions)
    IN /\ compiled' = [trips |-> res.trips, stop_times |-> res.stop_times, called |-> TRUE]
       /\ stopTimes' = afterRenumber(stopTimes, res.stop_times)
       /\ UNCHANGED <<routes, trips, stops, restrictions, selectedStopId,
                      banner, call, returned, asyncVars, builderVars>>

----------------------------------------------------------------------------
(* The compiler on bounded inputs *)

MaxRows == 3    \* the most rows stop_times.txt holds

R1 == <<"R1">>
T1 == <<"T1">>
T2 == <<"T2">>
StopA == <<"A">>
StopB == <<"B">>

Blank    == <<>>
ShortHM  == <<"9", ":", "0", "5">>
FullHMS  == <<"1", "0", ":", "0", "0", ":", "3", "0">>
NotATime == <<"x">>

Trip(trip_id, route_id) ==
    [trip_id |-> trip_id, route_id |-> route_id, service_id |-> <<"WKDY">>]

StopTime(trip_id, stop_id, seq, arr, dep) ==
    [trip_id |-> trip_id, stop_id |-> stop_id, stop_sequence |-> seq,
     arrival_time |-> arr, departure_time |-> dep]

\* the rows stop_times.txt is filled from: rows of T1 at either stop, with
\* either sequence number, without times or with an arrival only, and one
\* row of T2 whose arrival is not a time
CompileRows ==
    {StopTime(T1, s, q, tt[1], tt[2]) :
        s \in {StopA, StopB}, q \in {1, 2}, tt \in {<<Blank, Blank>>, <<ShortHM, Blank>>}}
    \cup {StopTime(T2, StopA, 1, NotATime, FullHMS)}

SeqsUpTo(S, n) == UNION {[1..k -> S] : k \in 0..n}

Rule(mode) == [mode |-> mode]

\* the restriction maps the compiler is run on: any rule or none at T1::A,
\* custom or none at T1::B, none for T2
CompileRestrictions ==
    {[k \in ka \cup kb |->
        IF k = restrictionKey(T1, StopA) THEN Rule(ma) ELSE Rule("custom")] :
        ka \in {{}, {restrictionKey(T1, StopA)}},
        ma \in {"normal", "pickup", "dropoff", "custom"},
        kb \in {{}, {restrictionKey(T1, StopB)}}}

InitCompile ==
    /\ routes = <<R1>>
    /\ stops = <<StopA, StopB>>
    /\ selectedStopId = NoStop
    /\ trips = <<Trip(T1, R1), Trip(T2, R1)>>
    /\ stopTimes \in SeqsUpTo(CompileRows, MaxRows)
    /\ restrictions \in CompileRestrictions
    /\ compiled = NotCompiled
    /\ banner = NoBanner
    /\ inflight = NoFlight
    /\ requests = <<>>
    /\ builder = NoBuilder
    /\ builderUi = NoBuilder
    /\ history = <<>>
    /\ lastHash = <<>>
    /\ call = NoCall
    /\ returned = Pending

NextCompile == ExportCompiled

SpecCompile == InitCompile /\ [][NextCompile]_vars

----------------------------------------------------------------------------
(* What the claims about the compiler speak of *)

SegA(trip_id) == trip_id \o <<"__segA">>
SegB(trip_id) == trip_id \o <<"__segB">>

\* the restriction mode of a (trip, stop) pair; no entry means normal
ModeOf(trip_id, stop_id) ==
    IF restrictionKey(trip_id, stop_id) \in DOMAIN restrictions
    THEN restrictions[restrictionKey(trip_id, stop_id)].mode
    ELSE "normal"

\* the source rows of a trip in ascending stop_sequence order
SourceRows(trip_id) == stopTimesByTrip(stopTimes, trip_id)

\* the positions of the custom-marked rows among the source rows of a trip
CustomAt(trip_id) ==
    {i \in 1..Len(SourceRows(trip_id)) :
        ModeOf(trip_id, stopTimes[SourceRows(trip_id)[i]].stop_id) = "custom"}

MinOf(S) == CHOOSE i \in S : \A j \in S : i <= j
MaxOf(S) == CHOOSE i \in S : \A j \in S : j <= i

HasTime(ref) ==
    stopTimes[ref].arrival_time # Blank \/ stopTimes[ref].departure_time # Blank

\* the output rows and the output trips with a given trip_id, in output order
OutRows(trip_id) ==
    LET withId(r) == r.trip_id = trip_id IN SelectSeq(compiled.stop_times, withId)
OutTrips(trip_id) ==
    LET withId(t) == t.trip_id = trip_id IN SelectSeq(compiled.trips, withId)

OutIds == {compiled.stop_times[k].trip_id : k \in 1..Len(compiled.stop_times)}

\* the source rows an output trip was built from, in output order
SourcesOf(trip_id) == [k \in 1..Len(OutRows(trip_id)) |-> OutRows(trip_id)[k].src]

\* the rows among refs that have a time
WithTime(refs) == SelectSeq(refs, HasTime)

Flags(r) == <<r.pickup_type, r.drop_off_type>>

\* C1: for every output trip_id the rows with that id are numbered exactly
\* 1..N, and a row numbered lower comes from a source row that is not later
\* in the ascending stop_sequence order of the source trip
C1_DenseInSourceOrder ==
    compiled.called =>
        \A id \in OutIds :
            LET g == OutRows(id) IN
            /\ {g[k].stop_sequence : k \in 1..Len(g)} = 1..Len(g)
            /\ \A a, b \in 1..Len(g) :
                  g[a].stop_sequence < g[b].stop_sequence =>
                      /\ a < b
                      /\ num(stopTimes[g[a].src].stop_sequence)
                            <= num(stopTimes[g[b].src].stop_sequence)

\* a trip whose rows are stored out of stop_sequence order was renumbered
C1_Witness ==
    /\ compiled.called
    /\ \E id \in OutIds :
          LET g == OutRows(id) IN
          \E a, b \in 1..Len(g) :
              /\ g[a].stop_sequence = 1 /\ g[b].stop_sequence = 2
              /\ g[a].src > g[b].src
              /\ stopTimes[g[a].src].stop_sequence = 1
              /\ stopTimes[g[b].src].stop_sequence = 2

\* C2: a source trip with a custom-marked row gives exactly the two trips
\* __segA and __segB and none with its own id; segA holds the rows up to the
\* last custom row and segB the rows from the first custom row on
C2_TwoSegments ==
    compiled.called =>
        \A ti \in 1..Len(trips) :
            LET id   == trips[ti].trip_id
                rows == SourceRows(id)
            IN CustomAt(id) # {} =>
                /\ Len(OutTrips(SegA(id))) = 1
                /\ Len(OutTrips(SegB(id))) = 1
                /\ Len(OutTrips(id)) = 0
                /\ OutRows(id) = <<>>
                /\ SourcesOf(SegA(id)) = WithTime(SubSeq(rows, 1, MaxOf(CustomAt(id))))
                /\ SourcesOf(SegB(id)) =
                      WithTime(SubSeq(rows, MinOf(CustomAt(id)), Len(rows)))

\* a trip split where a row is only in segA and a row only in segB
C2_Witness ==
    /\ compiled.called
    /\ \E ti \in 1..Len(trips) :
          LET id == trips[ti].trip_id
              a  == SourcesOf(SegA(id))
              b  == SourcesOf(SegB(id))
          IN /\ CustomAt(id) # {}
             /\ \E i \in 1..Len(a) : \A j \in 1..Len(b) : a[i] # b[j]
             /\ \E j \in 1..Len(b) : \A i \in 1..Len(a) : a[i] # b[j]

\* the output rows of a segment of a source trip that come from a
\* custom-marked source row
CustomRowsOf(trip_id, segId) ==
    {k \in 1..Len(OutRows(segId)) : ModeOf(trip_id, OutRows(segId)[k].stop_id) = "custom"}

PlainFlags(mode) ==
    IF mode = "pickup" THEN <<0, 1>> ELSE IF mode = "dropoff" THEN <<1, 0>> ELSE <<0, 0>>

\* C5: a source trip with rows and no custom row gives exactly one output
\* trip, equal to it, and each of its rows has the flags of its restriction
C5_PlainTrip ==
    compiled.called =>
        \A ti \in 1..Len(trips) :
            LET id == trips[ti].trip_id IN
            (SourceRows(id) # <<>> /\ CustomAt(id) = {}) =>
                /\ OutTrips(id) = <<trips[ti]>>
                /\ OutTrips(SegA(id)) = <<>> /\ OutTrips(SegB(id)) = <<>>
                /\ OutRows(SegA(id)) = <<>> /\ OutRows(SegB(id)) = <<>>
                /\ \A k \in 1..Len(OutRows(id)) :
                      Flags(OutRows(id)[k]) = PlainFlags(ModeOf(id, OutRows(id)[k].stop_id))

\* a plain trip with a pickup-only row and a row without restriction
C5_Witness ==
    /\ compiled.called
    /\ \E ti \in 1..Len(trips) :
          LET id == trips[ti].trip_id IN
          /\ CustomAt(id) = {}
          /\ \E k \in 1..Len(OutRows(id)) : Flags(OutRows(id)[k]) = <<0, 1>>
          /\ \E k \in 1..Len(OutRows(id)) :
                restrictionKey(id, OutRows(id)[k].stop_id) \notin DOMAIN restrictions

\* the source rows the index range of an output trip covers: every row for
\* a plain trip, the rows up to the last custom row for segA, the rows from
\* the first custom row on for segB
Covered(trip_id, outId) ==
    LET rows == SourceRows(trip_id) IN
    IF CustomAt(trip_id) = {} THEN
        IF outId = trip_id THEN {rows[i] : i \in 1..Len(rows)} ELSE {}
    ELSE IF outId = SegA(trip_id) THEN {rows[i] : i \in 1..MaxOf(CustomAt(trip_id))}
    ELSE IF outId = SegB(trip_id) THEN
        {rows[i] : i \in MinOf(CustomAt(trip_id))..Len(rows)}
    ELSE {}

EmittedIn(outId) == {OutRows(outId)[k].src : k \in 1..Len(OutRows(outId))}

\* C6: no output row has both times blank, and a covered source row is left
\* out of an output trip only when both its times are blank
C6_OnlyBlankRowsSkipped ==
    compiled.called =>
        /\ \A k \in 1..Len(compiled.stop_times) :
              compiled.stop_times[k].arrival_time # Blank
                  \/ compiled.stop_times[k].departure_time # Blank
        /\ \A ti \in 1..Len(trips) :
              LET id == trips[ti].trip_id IN
              \A outId \in {id, SegA(id), SegB(id)} :
                  \A ref \in Covered(id, outId) :
                      HasTime(ref) <=> ref \in EmittedIn(outId)

\* a split trip of which both segments emit a row that has an arrival and no
\* departure, and skip a row without times
C6_Witness ==
    /\ compiled.called
    /\ \E ti \in 1..Len(trips) :
          LET id == trips[ti].trip_id IN
          /\ CustomAt(id) # {}
          /\ \A outId \in {SegA(id), SegB(id)} :
                /\ \E ref \in Covered(id, outId) : ~HasTime(ref)
                /\ \E k \in 1..Len(OutRows(outId)) :
                      /\ OutRows(outId)[k].departure_time = Blank
                      /\ OutRows(outId)[k].arrival_time = toHHMMSS(ShortHM)

StopsOf(outId) == {OutRows(outId)[k].stop_id : k \in 1..Len(OutRows(outId))}

\* C7 as stated: the stop of every custom-marked row of a split trip is among
\* the rows of segA and among the rows of segB
C7_BoundaryStopInBoth ==
    compiled.called =>
        \A ti \in 1..Len(trips) :
            LET id == trips[ti].trip_id IN
            \A i \in CustomAt(id) :
                /\ stopTimes[SourceRows(id)[i]].stop_id \in StopsOf(SegA(id))
                /\ stopTimes[SourceRows(id)[i]].stop_id \in StopsOf(SegB(id))

\* C7 as amended: the stop of every custom-marked row that has a time is
\* among the rows of segA and among the rows of segB
C7_TimedBoundaryStopInBoth ==
    compiled.called =>
        \A ti \in 1..Len(trips) :
            LET id == trips[ti].trip_id IN
            \A i \in CustomAt(id) :
                HasTime(SourceRows(id)[i]) =>
                    /\ stopTimes[SourceRows(id)[i]].stop_id \in StopsOf(SegA(id))
                    /\ stopTimes[SourceRows(id)[i]].stop_id \in StopsOf(SegB(id))

\* a split trip with two custom-marked stops that have times, apart from
\* each other
C7_Witness ==
    /\ compiled.called
    /\ \E ti \in 1..Len(trips) :
          LET id == trips[ti].trip_id IN
          \E i, j \in CustomAt(id) :
              /\ i < j
              /\ HasTime(SourceRows(id)[i]) /\ HasTime(SourceRows(id)[j])
              /\ stopTimes[SourceRows(id)[i]].stop_id # stopTimes[SourceRows(id)[j]].stop_id

\* C8: a source trip without rows gives no output trip and no output row; a
\* source trip whose rows all lack both times gives its header row(s), one
\* for a plain trip and two for a split trip, and no output row
C8_EmptyAndBlankTrips ==
    compiled.called =>
        \A ti \in 1..Len(trips) :
            LET id   == trips[ti].trip_id
                rows == SourceRows(id)
                outs == {id, SegA(id), SegB(id)}
            IN /\ rows = <<>> =>
                    \A o \in outs : OutTrips(o) = <<>> /\ OutRows(o) = <<>>
               /\ (rows # <<>> /\ \A i \in 1..Len(rows) : ~HasTime(rows[i])) =>
                    /\ \A o \in outs : OutRows(o) = <<>>
                    /\ IF CustomAt(id) = {}
                       THEN OutTrips(id) = <<trips[ti]>>
                       ELSE Len(OutTrips(SegA(id))) = 1 /\ Len(OutTrips(SegB(id))) = 1
                            /\ OutTrips(id) = <<>>

\* one trip has no rows and the other, split, only rows without times
C8_Witness ==
    /\ compiled.called
    /\ \E ti, tj \in 1..Len(trips) :
          /\ SourceRows(trips[ti].trip_id) = <<>>
          /\ OutTrips(trips[ti].trip_id) = <<>>
          /\ Len(SourceRows(trips[tj].trip_id)) >= 2
          /\ CustomAt(trips[tj].trip_id) # {}
          /\ Len(compiled.trips) = 2
          /\ compiled.stop_times = <<>>

----------------------------------------------------------------------------
(* The compiler on trip_ids that end in a segment suffix *)

\* the trip_ids the second trip is given: one that no suffix leads to, and
\* the ones the segments of T1 are given
SecondTripIds == {T2, T1 \o <<"__segA">>, T1 \o <<"__segB">>}

\* rows of T1 at either stop and a row of the second trip, all with times
SuffixRows(second) ==
    {StopTime(T1, StopA, 1, ShortHM, ShortHM), StopTime(T1, StopB, 2, ShortHM, ShortHM),
     StopTime(second, StopA, 1, FullHMS, FullHMS)}

InitSuffix ==
    /\ routes = <<R1>>
    /\ stops = <<StopA, StopB>>
    /\ selectedStopId = NoStop
    /\ \E second \in SecondTripIds :
          /\ trips \in {<<Trip(T1, R1), Trip(second, R1)>>, <<Trip(second, R1), Trip(T1, R1)>>}
          /\ stopTimes \in SeqsUpTo(SuffixRows(second), MaxRows)
    /\ restrictions \in {[k \in ks |-> Rule("custom")] : ks \in SUBSET {restrictionKey(T1, StopA)}}
    /\ compiled = NotCompiled
    /\ banner = NoBanner
    /\ inflight = NoFlight
    /\ requests = <<>>
    /\ builder = NoBuilder
    /\ builderUi = NoBuilder
    /\ history = <<>>
    /\ lastHash = <<>>
    /\ call = NoCall
    /\ returned = Pending

SpecSuffix == InitSuffix /\ [][NextCompile]_vars

\* C26: the trips of the output have pairwise distinct trip_ids, and the
\* output rows under one trip_id come from one source trip and one segment
C26_OutputIdsDistinct ==
    compiled.called =>
        /\ \A i, j \in 1..Len(compiled.trips) :
              compiled.trips[i].trip_id = compiled.trips[j].trip_id => i = j
        /\ \A i, j \in 1..Len(compiled.stop_times) :
              compiled.stop_times[i].trip_id = compiled.stop_times[j].trip_id =>
                  /\ stopTimes[compiled.stop_times[i].src].trip_id
                         = stopTimes[compiled.stop_times[j].src].trip_id
                  /\ compiled.stop_times[i].seg = compiled.stop_times[j].seg

----------------------------------------------------------------------------
(* Editing operations *)

R2 == <<"R2">>
T3 == <<"T3">>

Range(s) == {s[i] : i \in 1..Len(s)}

\* delete next[k] for every k of keys
withoutKeys(map, keys) == [k \in DOMAIN map \ keys |-> map[k]]

\* next[key] = rule
withKey(map, key, rule) ==
    [k \in DOMAIN map \cup {key} |-> IF k = key THEN rule ELSE map[k]]

\* normalizeRule keeping the mode it is given
normalizeRule_asRead(raw) ==
    [mode |-> IF "mode" \in DOMAIN raw THEN raw.mode ELSE "normal"]

\* normalizeRule(raw); raw?.mode of an entry without mode is undefined
normalizeRule(raw) ==
    [mode |-> IF "mode" \in DOMAIN raw /\ raw.mode \in {"pickup", "dropoff", "custom"}
              THEN raw.mode ELSE "normal"]

\* new Set(stopTimes.map(st => `${st.trip_id}::${st.stop_id}`))
presentPairs(sts) == {restrictionKey(sts[i].trip_id, sts[i].stop_id) : i \in 1..Len(sts)}

\* the loop of importOverrides storing every entry of the file
mergeOverrides_keepOrphans(current, rules, present) ==
    [k \in DOMAIN current \cup DOMAIN rules |->
        IF k \in DOMAIN rules THEN normalizeRule(rules[k]) ELSE current[k]]

\* the loop of importOverrides over Object.entries(rules), from `current`
mergeOverrides(current, rules, present) ==
    [k \in DOMAIN current \cup (DOMAIN rules \cap present) |->
        IF k \in DOMAIN rules /\ k \in present THEN normalizeRule(rules[k]) ELSE current[k]]

\* the entry {} of an override file
EmptyRule == [f \in {} |-> ""]

\* the override files read: at most two entries, each under the key of a
\* loaded pair, with a mode that normalizeRule keeps, one that it does not
\* keep or none, or under the key of a pair of a trip that is not loaded
FileKeys == {restrictionKey(T1, StopA), restrictionKey(T2, StopA), restrictionKey(T3, StopA)}
OverrideFiles ==
    {f \in UNION {[ks -> {Rule("dropoff"), Rule("bogus"), EmptyRule}] :
                     ks \in {x \in SUBSET FileKeys : Cardinality(x) <= 2}} :
        /\ restrictionKey(T1, StopA) \in DOMAIN f => f[restrictionKey(T1, StopA)] # EmptyRule
        /\ restrictionKey(T2, StopA) \in DOMAIN f => f[restrictionKey(T2, StopA)] # Rule("bogus")
        /\ restrictionKey(T3, StopA) \in DOMAIN f => f[restrictionKey(T3, StopA)] = Rule("dropoff")}

\* the counters of the loop of importOverrides, one pass per entry of
\* Object.entries(rules)
RECURSIVE countOverrides(_, _, _)
countOverrides(keys, present, acc) ==
    IF keys = {} THEN acc
    ELSE LET key == CHOOSE k \in keys : TRUE
             counted == IF key \in present
                        THEN [acc EXCEPT !.total = @ + 1, !.matched = @ + 1]
                        ELSE [acc EXCEPT !.total = @ + 1, !.skipped = @ + 1]
         IN countOverrides(keys \ {key}, present, counted)

\* `Overrides: applied ${matched}/${total}${skipped ? ` (${skipped} unmatched)` : ""}.`
overridesBanner(c) ==
    [kind |-> "success",
     text |-> <<"Overrides: applied ", c.matched, "/", c.total>>
              \o (IF c.skipped # 0 THEN <<" (", c.skipped, " unmatched)">> ELSE <<>>)
              \o <<".">>]

\* importOverrides(file) for a file that parses to `rules`, with no other
\* event between its await and its setProject
importOverrides(rules) ==
    LET present == presentPairs(stopTimes)
        counters == countOverrides(DOMAIN rules, present,
                                   [total |-> 0, matched |-> 0, skipped |-> 0])
    IN /\ UNCHANGED <<routes, trips, stopTimes, stops, selectedStopId, compiled,
                      call, returned, asyncVars, builderVars>>
       /\ banner' = overridesBanner(counters)
       /\ restrictions' = mergeOverrides(restrictions, rules, present)

\* the "Import overrides" file input
ImportOverrides == \E rules \in OverrideFiles : importOverrides(rules)

\* setTimeout(() => setBanner(null), 3200)
BannerTimeout ==
    /\ banner # NoBanner
    /\ banner' = NoBanner
    /\ UNCHANGED <<routes, trips, stopTimes, stops, restrictions, selectedStopId,
                   compiled, call, returned, asyncVars, builderVars>>

\* the maps PatternMatrix hands to onRestrictionsChange: the current map with
\* the rule of one pair that has a stop_times row set or cleared
EditedMaps ==
    {withKey(restrictions, k, Rule(m)) : k \in presentPairs(stopTimes), m \in {"pickup", "custom"}}
    \cup {withoutKeys(restrictions, {k}) : k \in presentPairs(stopTimes)}

\* handleRestrictionsChange(map)
HandleRestrictionsChange ==
    \E map \in EditedMaps :
        /\ restrictions' = map
        /\ UNCHANGED <<routes, trips, stopTimes, stops, selectedStopId, compiled, banner, call, returned,
                      asyncVars, builderVars>>

\* hardDeleteRoute without the purge of the restriction map
hardDeleteRoute_keepRestrictions(route_id, snapTrips, snapStopTimes) ==
    LET otherRoute(t) == t.route_id # route_id
        remainingTrips == SelectSeq(snapTrips, otherRoute)
        remainingTripIds == {remainingTrips[i].trip_id : i \in 1..Len(remainingTrips)}
        ofRemaining(st) == st.trip_id \in remainingTripIds
        notDeleted(r) == r # route_id
    IN /\ restrictions' = restrictions
       /\ trips' = remainingTrips
       /\ stopTimes' = SelectSeq(stopTimes, ofRemaining)
       /\ routes' = SelectSeq(routes, notDeleted)

\* hardDeleteRoute(route_id), called from a render whose trips and stopTimes
\* are snapTrips and snapStopTimes
hardDeleteRoute(route_id, snapTrips, snapStopTimes) ==
    LET doomedTripSet == {snapTrips[i].trip_id : i \in {j \in 1..Len(snapTrips) :
                              snapTrips[j].route_id = route_id}}
        doomedKeys == {restrictionKey(snapStopTimes[i].trip_id, snapStopTimes[i].stop_id) :
                          i \in {j \in 1..Len(snapStopTimes) :
                                    snapStopTimes[j].trip_id \in doomedTripSet}}
        otherRoute(t) == t.route_id # route_id
        remainingTrips == SelectSeq(snapTrips, otherRoute)
        remainingTripIds == {remainingTrips[i].trip_id : i \in 1..Len(remainingTrips)}
        ofRemaining(st) == st.trip_id \in remainingTripIds
        notDeleted(r) == r # route_id
    IN /\ restrictions' = withoutKeys(restrictions, doomedKeys)
       /\ trips' = remainingTrips
       /\ stopTimes' = SelectSeq(stopTimes, ofRemaining)
       /\ routes' = SelectSeq(routes, notDeleted)

\* routes.txt onDeleteRow
DeleteRoute ==
    \E i \in 1..Len(routes) :
        /\ hardDeleteRoute(routes[i], trips, stopTimes)
        /\ UNCHANGED <<stops, selectedStopId, compiled, banner, call, returned, asyncVars, builderVars>>

\* the tables after the updates one call hardDeleteRoute(route_id) queues are
\* applied to the tables st: the updater functions of setProject,
\* setStopTimes and setRoutes run on the latest tables, setTrips is given a
\* value computed from the trips of the render
queuedDelete(st, route_id, snapTrips, snapStopTimes) ==
    LET doomedTripSet == {snapTrips[i].trip_id : i \in {j \in 1..Len(snapTrips) :
                              snapTrips[j].route_id = route_id}}
        doomedKeys == {restrictionKey(snapStopTimes[i].trip_id, snapStopTimes[i].stop_id) :
                          i \in {j \in 1..Len(snapStopTimes) :
                                    snapStopTimes[j].trip_id \in doomedTripSet}}
        otherRoute(t) == t.route_id # route_id
        remainingTrips == SelectSeq(snapTrips, otherRoute)
        remainingTripIds == {remainingTrips[i].trip_id : i \in 1..Len(remainingTrips)}
        ofRemaining(row) == row.trip_id \in remainingTripIds
        notDeleted(r) == r # route_id
    IN [restrictions |-> withoutKeys(st.restrictions, doomedKeys),
        trips        |-> remainingTrips,
        stopTimes    |-> SelectSeq(st.stopTimes, ofRemaining),
        routes       |-> SelectSeq(st.routes, notDeleted)]

\* Array.from(selectedRouteIds).forEach(hardDeleteRoute): every call is made
\* from the same render
RECURSIVE forEachHardDeleteRoute(_, _, _, _)
forEachHardDeleteRoute(st, selected, snapTrips, snapStopTimes) ==
    IF selected = <<>> THEN st
    ELSE forEachHardDeleteRoute(queuedDelete(st, Head(selected), snapTrips, snapStopTimes),
                                Tail(selected), snapTrips, snapStopTimes)

\* the orders in which a Set of the routes of the table can hold its members
Selections ==
    {sel \in SeqsUpTo(Range(routes), Len(routes)) :
        sel # <<>> /\ \A i, j \in 1..Len(sel) : sel[i] = sel[j] => i = j}

\* the click on "Delete selected" with selectedRouteIds holding sel
deleteSelected(sel) ==
    LET after == forEachHardDeleteRoute(
                     [restrictions |-> restrictions, trips |-> trips,
                      stopTimes |-> stopTimes, routes |-> routes],
                     sel, trips, stopTimes)
    IN /\ restrictions' = after.restrictions
       /\ trips' = after.trips
       /\ stopTimes' = after.stopTimes
       /\ routes' = after.routes
       /\ UNCHANGED <<stops, selectedStopId, compiled, banner, call, returned,
                      asyncVars, builderVars>>

\* "Delete selected"
DeleteSelected ==
    \E sel \in Selections : deleteSelected(sel)

\* useEffect: if the selected stop no longer exists, clear it
selectionAfter(newStops, selected) ==
    IF selected # NoStop /\ selected \notin Range(newStops) THEN NoStop ELSE selected

\* trips.txt onDeleteRow, for the row of trip tid
deleteTripRow(tid) ==
    LET otherTrip(t) == t.trip_id # tid
        ofOther(st) == st.trip_id # tid
    IN /\ trips' = SelectSeq(trips, otherTrip)
       /\ stopTimes' = SelectSeq(stopTimes, ofOther)
       /\ UNCHANGED <<routes, stops, restrictions, selectedStopId, compiled,
                      banner, call, returned, asyncVars, builderVars>>

\* a click on the delete button of a row of trips.txt
DeleteTrip == \E i \in 1..Len(trips) : deleteTripRow(trips[i].trip_id)

\* stops.txt onDeleteRow
DeleteStopRow ==
    \E i \in 1..Len(stops) :
        LET sid == stops[i]
            otherStop(x) == x # sid
            atOther(st) == st.stop_id # sid
        IN /\ stops' = SelectSeq(stops, otherStop)
           /\ stopTimes' = SelectSeq(stopTimes, atOther)
           /\ selectedStopId' = selectionAfter(SelectSeq(stops, otherStop), selectedStopId)
           /\ UNCHANGED <<routes, trips, restrictions, compiled, banner, call, returned,
                      asyncVars, builderVars>>

\* a click on a stop marker: setSelectedStopId(s.stop_id)
SelectStop ==
    \E i \in 1..Len(stops) :
        /\ selectedStopId' = stops[i]
        /\ UNCHANGED <<routes, trips, stopTimes, stops, restrictions, compiled, banner, call, returned,
                      asyncVars, builderVars>>

\* deleteSelectedStop
DeleteSelectedStop ==
    /\ selectedStopId # NoStop
    /\ LET sid == selectedStopId
           otherStop(x) == x # sid
           atOther(st) == st.stop_id # sid
       IN /\ stops' = SelectSeq(stops, otherStop)
          /\ stopTimes' = SelectSeq(stopTimes, atOther)
          /\ selectedStopId' = NoStop
    /\ UNCHANGED <<routes, trips, restrictions, compiled, banner, call, returned,
                      asyncVars, builderVars>>

\* stop_times.txt onDeleteRow
DeleteStopTimeRow ==
    \E i \in 1..Len(stopTimes) :
        LET row == stopTimes[i]
            notThatRow(st) == ~(st.trip_id = row.trip_id /\ st.stop_id = row.stop_id
                                /\ st.stop_sequence = row.stop_sequence)
        IN /\ stopTimes' = SelectSeq(stopTimes, notThatRow)
           /\ UNCHANGED <<routes, trips, stops, restrictions, selectedStopId, compiled, banner, call, returned,
                      asyncVars, builderVars>>

\* resetAll
ResetAll ==
    /\ routes' = <<>> /\ trips' = <<>> /\ stopTimes' = <<>> /\ stops' = <<>>
    /\ selectedStopId' = NoStop
    /\ UNCHANGED <<restrictions, compiled, banner, call, returned, asyncVars, builderVars>>

\* the feed the session starts from: two routes of one trip each, the first
\* trip calling at two stops, and no restriction
InitEdit ==
    /\ routes = <<R1, R2>>
    /\ stops = <<StopA, StopB>>
    /\ trips = <<Trip(T1, R1), Trip(T2, R2)>>
    /\ stopTimes = <<StopTime(T1, StopA, 1, ShortHM, ShortHM),
                     StopTime(T1, StopB, 2, ShortHM, ShortHM),
                     StopTime(T2, StopA, 1, ShortHM, ShortHM)>>
    /\ restrictions = <<>>
    /\ selectedStopId = NoStop
    /\ compiled = NotCompiled
    /\ banner = NoBanner
    /\ inflight = NoFlight
    /\ requests = <<>>
    /\ builder = NoBuilder
    /\ builderUi = NoBuilder
    /\ history = <<>>
    /\ lastHash = <<>>
    /\ call = NoCall
    /\ returned = Pending

NextEdit ==
    \/ ImportOverrides
    \/ HandleRestrictionsChange
    \/ DeleteRoute
    \/ DeleteSelected
    \/ DeleteTrip
    \/ DeleteStopRow
    \/ SelectStop
    \/ DeleteSelectedStop
    \/ DeleteStopTimeRow
    \/ ResetAll
    \/ BannerTimeout

SpecEdit == InitEdit /\ [][NextEdit]_vars

\* C10: every key of the restriction map is the trip_id::stop_id of a row
\* that is in stopTimes
C10_NoDanglingRestriction ==
    \A key \in DOMAIN restrictions : key \in presentPairs(stopTimes)

\* the key is `${tid}::${some stop_id}`
keyOfTrip(key, tid) ==
    /\ Len(key) > Len(tid)
    /\ SubSeq(key, 1, Len(tid) + 1) = tid \o <<"::">>

\* the entries of a restriction map that belong to the trips of tids
entriesOf(map, tids) ==
    {<<k, map[k]>> : k \in {x \in DOMAIN map : \E tid \in tids : keyOfTrip(x, tid)}}

\* the trip_ids of the rows of a trips table
TripIds(ts) == {ts[i].trip_id : i \in 1..Len(ts)}

\* the rows of a stop_times table that belong to the trips of tids
RowsOfTrips(sts, tids) ==
    LET ofThose(st) == st.trip_id \in tids
    IN SelectSeq(sts, ofThose)

\* C11: a step that deletes the row of trip tid from trips.txt leaves no trip
\* tid, no stop_times row of tid and no restriction keyed tid::*, and leaves
\* the trips, stop_times rows and restrictions of the other trips as they were
C11_DeleteTripCascades ==
    [][\A i \in 1..Len(trips) :
        LET tid == trips[i].trip_id
            others == TripIds(trips) \ {tid}
        IN deleteTripRow(tid) =>
            /\ tid \notin TripIds(trips')
            /\ RowsOfTrips(stopTimes', {tid}) = <<>>
            /\ entriesOf(restrictions', {tid}) = {}
            /\ TripIds(trips') = others
            /\ RowsOfTrips(stopTimes', others) = RowsOfTrips(stopTimes, others)
            /\ entriesOf(restrictions', others) = entriesOf(restrictions, others)]_vars

\* the trip_ids of the trips of a route
TripsOfRoute(ts, route_id) ==
    {ts[i].trip_id : i \in {j \in 1..Len(ts) : ts[j].route_id = route_id}}

\* C12: a step hardDeleteRoute(R) leaves no route R, no trip of R, no
\* stop_times row of a trip of R and no restriction keyed by a (trip, stop)
\* pair of such a row, and leaves the trips, stop_times rows and restrictions
\* of the other routes as they were
C12_RouteDeleteCascades ==
    [][\A i \in 1..Len(routes) :
        LET R == routes[i]
            doomed == TripsOfRoute(trips, R)
            others == TripIds(trips) \ doomed
            doomedPairs == presentPairs(RowsOfTrips(stopTimes, doomed))
            otherRoute(t) == t.route_id # R
        IN hardDeleteRoute(R, trips, stopTimes) =>
            /\ R \notin Range(routes')
            /\ TripsOfRoute(trips', R) = {}
            /\ RowsOfTrips(stopTimes', doomed) = <<>>
            /\ DOMAIN restrictions' \cap doomedPairs = {}
            /\ trips' = SelectSeq(trips, otherRoute)
            /\ RowsOfTrips(stopTimes', others) = RowsOfTrips(stopTimes, others)
            /\ entriesOf(restrictions', others) = entriesOf(restrictions, others)]_vars

\* after a file of two stored entries was merged, a route has been deleted
\* with its trip, its rows and its restriction, and the other route still has
\* its trip, its row and its restriction
C12_Witness ==
    /\ routes = <<R2>>
    /\ trips = <<Trip(T2, R2)>>
    /\ TripIds(trips) = {T2}
    /\ Len(stopTimes) = 1
    /\ DOMAIN restrictions = {restrictionKey(T2, StopA)}
    /\ banner # NoBanner
    /\ banner.text[2] = 2

\* the counters that the banner of importOverrides shows
BannerCounters ==
    [matched |-> banner.text[2],
     total   |-> banner.text[4],
     skipped |-> IF Len(banner.text) > 5 THEN banner.text[6] ELSE 0]

\* C13: a step importOverrides(rules) counts as skipped, and does not add,
\* every entry whose key is not the trip_id::stop_id of a stopTimes row,
\* counts as matched, and stores, every other entry, and matched + skipped
\* is the number of entries of the file
C13_ImportCounts ==
    [][\A rules \in OverrideFiles :
        LET present == presentPairs(stopTimes)
            absent == DOMAIN rules \ present
            found == DOMAIN rules \cap present
        IN importOverrides(rules) =>
            /\ BannerCounters'.skipped = Cardinality(absent)
            /\ \A k \in absent :
                  /\ k \in DOMAIN restrictions' <=> k \in DOMAIN restrictions
                  /\ k \in DOMAIN restrictions => restrictions'[k] = restrictions[k]
            /\ BannerCounters'.matched = Cardinality(found)
            /\ \A k \in found :
                  /\ k \in DOMAIN restrictions'
                  /\ restrictions'[k] = normalizeRule(rules[k])
            /\ BannerCounters'.matched + BannerCounters'.skipped = Cardinality(DOMAIN rules)
            /\ BannerCounters'.total = Cardinality(DOMAIN rules)]_vars

\* a file of two entries has been merged, one stored and one skipped
C13_Witness ==
    /\ banner # NoBanner
    /\ BannerCounters.matched = 1
    /\ BannerCounters.skipped = 1
    /\ restrictionKey(T1, StopA) \in DOMAIN restrictions
    /\ restrictionKey(T3, StopA) \notin DOMAIN restrictions

\* C24: a click on "Delete selected" with two or more routes selected leaves
\* none of the selected routes in routes, no trip whose route_id is a selected
\* route and no stop_times row of a trip of a selected route
C24_DeleteSelectedCascades ==
    [][\A sel \in Selections :
        (Len(sel) >= 2 /\ deleteSelected(sel)) =>
            \A k \in 1..Len(sel) :
                /\ sel[k] \notin Range(routes')
                /\ TripsOfRoute(trips', sel[k]) = {}
                /\ RowsOfTrips(stopTimes', TripsOfRoute(trips, sel[k])) = <<>>]_vars

\* the modes of a stored rule
StopRuleModes == {"normal", "pickup", "dropoff", "custom"}

\* C27: a step importOverrides leaves the restriction map as it was except at
\* the keys of the file that are pairs of stopTimes; there it holds
\* normalizeRule of the file's value, whose mode is normal, pickup, dropoff or
\* custom, and normal when the file's value has another mode or none
C27_ImportFrame ==
    [][\A rules \in OverrideFiles :
        importOverrides(rules) =>
            LET applied == DOMAIN rules \cap presentPairs(stopTimes)
            IN /\ DOMAIN restrictions' = DOMAIN restrictions \cup applied
               /\ \A k \in DOMAIN restrictions \ DOMAIN rules :
                      restrictions'[k] = restrictions[k]
               /\ \A k \in DOMAIN restrictions \ applied :
                      restrictions'[k] = restrictions[k]
               /\ \A k \in applied :
                     /\ restrictions'[k] = normalizeRule(rules[k])
                     /\ restrictions'[k].mode \in StopRuleModes
                     /\ ("mode" \in DOMAIN rules[k] /\ rules[k].mode \in StopRuleModes
                            => restrictions'[k].mode = rules[k].mode)
                     /\ ("mode" \notin DOMAIN rules[k] \/ rules[k].mode \notin StopRuleModes
                            => restrictions'[k].mode = "normal")]_vars

\* a file with one entry of a mode that is not a rule mode has been merged
\* into a map that held an edited rule of another pair: the entry is stored
\* as normal and the edited rule is still there
C27_Witness ==
    /\ banner # NoBanner
    /\ BannerCounters.matched = 1
    /\ BannerCounters.total = 1
    /\ DOMAIN restrictions = {restrictionKey(T1, StopA), restrictionKey(T2, StopA)}
    /\ restrictions[restrictionKey(T1, StopA)].mode = "normal"
    /\ restrictions[restrictionKey(T2, StopA)].mode = "custom"

----------------------------------------------------------------------------
(* importOverrides overlapped by other events *)

\* importOverrides(file) up to `await file.text()`: the rest of the function
\* runs later, with the stopTimes and the project of the render it was
\* called from
BeginImport ==
    \E rules \in OverrideFiles :
        /\ inflight = NoFlight
        /\ inflight' = [fn |-> "importOverrides", rules |-> rules,
                        stopTimes |-> stopTimes, restrictions |-> restrictions]
        /\ UNCHANGED <<routes, trips, stopTimes, stops, restrictions, selectedStopId,
                       compiled, banner, call, returned, requests, builderVars>>

\* importOverrides(file) from the resolution of `await file.text()` to its end
FinishImport ==
    /\ inflight.fn = "importOverrides"
    /\ LET present == presentPairs(inflight.stopTimes)
           counters == countOverrides(DOMAIN inflight.rules, present,
                                      [total |-> 0, matched |-> 0, skipped |-> 0])
       IN /\ restrictions' = mergeOverrides(inflight.restrictions, inflight.rules, present)
          /\ banner' = overridesBanner(counters)
    /\ inflight' = NoFlight
    /\ UNCHANGED <<routes, trips, stopTimes, stops, selectedStopId, compiled,
                   call, returned, requests, builderVars>>

NextImportRace ==
    \/ BeginImport
    \/ FinishImport
    \/ HandleRestrictionsChange
    \/ DeleteRoute
    \/ BannerTimeout

SpecImportRace == InitEdit /\ [][NextImportRace]_vars

\* C25: when importOverrides ends, every entry that the map holds under a key
\* the file does not mention is still in the map, and no key of the file
\* whose pair has no stop_times row any more is in the map
C25_ImportKeepsOtherUpdates ==
    [][FinishImport =>
        /\ \A k \in DOMAIN restrictions \ DOMAIN inflight.rules :
              k \in DOMAIN restrictions' /\ restrictions'[k] = restrictions[k]
        /\ \A k \in DOMAIN inflight.rules :
              k \notin presentPairs(stopTimes) => k \notin DOMAIN restrictions']_vars

----------------------------------------------------------------------------
(* Pattern extractor *)

\* the loop `for (const x of big)` of isSubsequence, at element k of big with
\* i elements of small matched
RECURSIVE scanBig(_, _, _, _)
scanBig(small, big, k, i) ==
    IF k > Len(big) THEN FALSE
    ELSE IF big[k] = small[i + 1]
         THEN IF i + 1 = Len(small) THEN TRUE ELSE scanBig(small, big, k + 1, i + 1)
         ELSE scanBig(small, big, k + 1, i)

\* isSubsequence as a test that small is a run of adjacent elements of big
isSubsequence_contiguous(small, big) ==
    \E k \in 0..(Len(big) - Len(small)) : SubSeq(big, k + 1, k + Len(small)) = small

\* isSubsequence(small, big)
isSubsequence(small, big) ==
    IF Len(small) = 0 THEN TRUE ELSE scanBig(small, big, 1, 0)

\* stByTrip.get(trip_id) ?? [] : the rows of the trip sorted by stop_sequence
stByTrip(sts, trip_id) ==
    LET refs == stopTimesByTrip(sts, trip_id)
    IN [i \in 1..Len(refs) |-> sts[refs[i]]]

\* seqByTrip.get(trip_id) : the stop_ids of the trip in visit order, each at
\* its first visit only
seqByTrip(sts, trip_id) ==
    LET arr == stByTrip(sts, trip_id)
    IN FirstOccurrences([i \in 1..Len(arr) |-> arr[i].stop_id])

\* uniq of reps: the sequences of the trips, each once, in trip order
uniqSeqs(ts, sts) ==
    FirstOccurrences([i \in 1..Len(ts) |-> seqByTrip(sts, ts[i].trip_id)])

\* out of reps, keeping every unique sequence
maximalSeqs_all(uniq) == uniq

\* out of reps: the unique sequences that are a subsequence of no other one
maximalSeqs(uniq) ==
    LET notSub(i) == ~ \E j \in 1..Len(uniq) : j # i /\ isSubsequence(uniq[i], uniq[j])
        kept == SelectSeq(Indices(uniq), notSub)
    IN [k \in 1..Len(kept) |-> uniq[kept[k]]]

\* reps, cut down to its first pattern
reps_firstPattern(ts, sts) ==
    LET out == maximalSeqs(uniqSeqs(ts, sts))
    IN IF out = <<>> THEN <<>> ELSE <<out[1]>>

\* reps
reps(ts, sts) ==
    LET uniq == uniqSeqs(ts, sts)
        out == maximalSeqs(uniq)
    IN IF Len(out) # 0 THEN out ELSE uniq

\* groupTrips of a block, for every trip whatever its sequence
groupTrips_everyTrip(ts, sts, seq) == ts

\* groupTrips of the block of pattern seq
groupTrips(ts, sts, seq) ==
    LET inGroup(t) == isSubsequence(seqByTrip(sts, t.trip_id), seq)
    IN SelectSeq(ts, inGroup)

\* blocks: one PatternBlock per pattern that has a stop and a trip; key is
\* the index of the pattern in reps
blocks(ts, sts) ==
    LET rs == reps(ts, sts)
        shown(i) == Len(groupTrips(ts, sts, rs[i])) # 0 /\ Len(rs[i]) # 0
        keys == SelectSeq(Indices(rs), shown)
    IN [k \in 1..Len(keys) |->
           [key |-> keys[k], idx |-> k, seq |-> rs[keys[k]],
            groupTrips |-> groupTrips(ts, sts, rs[keys[k]])]]

\* a render of PatternMatrix with the trips and stop_times of the state
RenderPatternMatrix ==
    /\ call.fn = "PatternMatrix"
    /\ returned = Pending
    /\ returned' = [done |-> TRUE,
                    seqByTrip |-> [i \in 1..Len(trips) |-> seqByTrip(stopTimes, trips[i].trip_id)],
                    reps |-> reps(trips, stopTimes),
                    blocks |-> blocks(trips, stopTimes)]
    /\ UNCHANGED <<routes, trips, stopTimes, stops, restrictions, selectedStopId,
                   compiled, banner, call, asyncVars, builderVars>>

\* a call isSubsequence(small, big)
CallIsSubsequence ==
    /\ call.fn = "isSubsequence"
    /\ returned = Pending
    /\ returned' = [done |-> TRUE, value |-> isSubsequence(call.small, call.big)]
    /\ UNCHANGED <<routes, trips, stopTimes, stops, restrictions, selectedStopId,
                   compiled, banner, call, asyncVars, builderVars>>

(* Pattern inputs *)

MaxVisits == 3    \* the most stop_times rows of one trip

StopC == <<"C">>

\* the stop_ids of the rows of a trip, in stop_sequence order
Visits == SeqsUpTo({StopA, StopB, StopC}, MaxVisits)

\* what the third trip visits
ThirdTripVisits == {<<>>, <<StopB>>, <<StopC, StopA>>, <<StopA, StopB, StopC>>}

\* the stop_times rows of a trip that visits v
RowsOfVisits(trip_id, v) ==
    [i \in 1..Len(v) |-> StopTime(trip_id, v[i], i, ShortHM, ShortHM)]

Reverse(s) == [i \in 1..Len(s) |-> s[Len(s) + 1 - i]]

\* a route of up to three trips; stop_times.txt lists the rows of the first
\* trip from its last stop to its first
PatternFeeds ==
    {[trips |-> <<>>, stopTimes |-> <<>>]}
    \cup {[trips |-> <<Trip(T1, R1)>>, stopTimes |-> Reverse(RowsOfVisits(T1, v1))] :
             v1 \in Visits}
    \cup {[trips |-> <<Trip(T1, R1), Trip(T2, R1)>>,
           stopTimes |-> Reverse(RowsOfVisits(T1, v1)) \o RowsOfVisits(T2, v2)] :
             v1 \in Visits, v2 \in Visits}
    \cup {[trips |-> <<Trip(T1, R1), Trip(T2, R1), Trip(T3, R1)>>,
           stopTimes |-> Reverse(RowsOfVisits(T1, v1)) \o RowsOfVisits(T2, v2)
                         \o RowsOfVisits(T3, v3)] :
             v1 \in Visits, v2 \in Visits, v3 \in ThirdTripVisits}

InitPatterns ==
    /\ routes = <<R1>>
    /\ stops = <<StopA, StopB, StopC>>
    /\ restrictions = <<>>
    /\ selectedStopId = NoStop
    /\ compiled = NotCompiled
    /\ banner = NoBanner
    /\ inflight = NoFlight
    /\ requests = <<>>
    /\ builder = NoBuilder
    /\ builderUi = NoBuilder
    /\ history = <<>>
    /\ lastHash = <<>>
    /\ returned = Pending
    /\ \/ /\ call = [fn |-> "PatternMatrix"]
          /\ \E feed \in PatternFeeds : trips = feed.trips /\ stopTimes = feed.stopTimes
       \/ /\ call \in [fn : {"isSubsequence"}, small : Visits, big : Visits]
          /\ trips = <<>>
          /\ stopTimes = <<>>

NextPatterns ==
    \/ RenderPatternMatrix
    \/ CallIsSubsequence

SpecPatterns == InitPatterns /\ [][NextPatterns]_vars

(* Pattern claims *)

\* the elements of big at the positions of S, in order
Pick(big, S) ==
    LET at(i) == i \in S
        idx == SelectSeq(Indices(big), at)
    IN [k \in 1..Len(idx) |-> big[idx[k]]]

\* small is big with zero or more elements deleted
Subsumed(small, big) == \E S \in SUBSET (1..Len(big)) : Pick(big, S) = small

\* C17: isSubsequence(small, big) is true exactly when small is big with
\* zero or more elements deleted, so it is true of every empty small and
\* false of every small longer than big
C17_IsSubsequence ==
    (call.fn = "isSubsequence" /\ returned.done) =>
        /\ returned.value <=> Subsumed(call.small, call.big)
        /\ call.small = <<>> => returned.value
        /\ Len(call.small) > Len(call.big) => ~returned.value

\* isSubsequence has returned true for a small that is neither a prefix of
\* big nor a run of adjacent elements of big
C17_Witness ==
    /\ call.fn = "isSubsequence"
    /\ returned.done
    /\ returned.value
    /\ call.small = <<StopA, StopC>>
    /\ call.big = <<StopA, StopB, StopC>>

\* PatternMatrix has rendered
Rendered == call.fn = "PatternMatrix" /\ returned.done

\* the distinct visit orders of the trips
UniqueSeqs == Range(returned.seqByTrip)

\* the trips of the block of pattern i of reps, none when it has no block
GroupOf(i) ==
    UNION {Range(returned.blocks[b].groupTrips) :
              b \in {x \in 1..Len(returned.blocks) : returned.blocks[x].key = i}}

\* C14: reps holds, once each, exactly the unique visit orders that are a
\* subsequence of no other unique visit order: no pattern is a subsequence of
\* another pattern, every visit order left out is a subsequence of another
\* visit order, and visit orders that are pairwise not comparable are all kept
C14_MaximalPatterns ==
    Rendered =>
        LET out == returned.reps
        IN /\ Range(out) = {s \in UniqueSeqs : \A t \in UniqueSeqs \ {s} : ~Subsumed(s, t)}
           /\ \A i, j \in 1..Len(out) : i # j => out[i] # out[j]
           /\ \A i, j \in 1..Len(out) : i # j => ~Subsumed(out[i], out[j])
           /\ \A s \in UniqueSeqs \ Range(out) : \E t \in UniqueSeqs \ {s} : Subsumed(s, t)
           /\ (\A s, t \in UniqueSeqs : s # t => ~Subsumed(s, t)) => Range(out) = UniqueSeqs

\* two visit orders that are not comparable are both patterns and a third
\* one, a subsequence of one of them, is left out
C14_Witness ==
    /\ Rendered
    /\ returned.seqByTrip = <<<<StopA, StopB>>, <<StopB, StopA>>, <<StopB>>>>
    /\ returned.reps = <<<<StopA, StopB>>, <<StopB, StopA>>>>

\* C15: the visit order of every trip is a subsequence of a pattern of reps,
\* and reps is not empty when there is a trip
C15_PatternsCoverTrips ==
    Rendered =>
        /\ \A i \in 1..Len(trips) :
              \E p \in 1..Len(returned.reps) : Subsumed(returned.seqByTrip[i], returned.reps[p])
        /\ trips # <<>> => returned.reps # <<>>

\* a trip whose visit order is left out of reps is covered by a longer pattern
C15_Witness ==
    /\ Rendered
    /\ Len(trips) = 3
    /\ returned.seqByTrip[2] = <<StopA, StopC>>
    /\ returned.seqByTrip[2] \notin Range(returned.reps)
    /\ <<StopA, StopB, StopC>> \in Range(returned.reps)

\* C16: a trip is in the group of a pattern exactly when its visit order is a
\* subsequence of the sequence of the pattern
C16_GroupedBySubsequence ==
    Rendered =>
        \A p \in 1..Len(returned.reps) : \A i \in 1..Len(trips) :
            trips[i] \in GroupOf(p) <=> Subsumed(returned.seqByTrip[i], returned.reps[p])

\* C16, for the patterns that have a stop: such a pattern has one block, and
\* a trip is in its group exactly when its visit order is a subsequence of
\* the sequence of the pattern
C16_GroupedBySubsequenceOfStops ==
    Rendered =>
        \A p \in 1..Len(returned.reps) :
            returned.reps[p] # <<>> =>
                /\ Cardinality({b \in 1..Len(returned.blocks) : returned.blocks[b].key = p}) = 1
                /\ \A b \in 1..Len(returned.blocks) :
                      returned.blocks[b].key = p => returned.blocks[b].seq = returned.reps[p]
                /\ \A i \in 1..Len(trips) :
                      trips[i] \in GroupOf(p)
                          <=> Subsumed(returned.seqByTrip[i], returned.reps[p])

\* a trip is in the groups of two patterns, and another trip in one only
C16_Witness ==
    /\ Rendered
    /\ Len(returned.reps) = 2
    /\ trips[1] \in GroupOf(1) \cap GroupOf(2)
    /\ trips[3] \in GroupOf(2) \ GroupOf(1)

----------------------------------------------------------------------------
(* Query language *)

(* A query, a field name and a field value are tuples of one-character      *)
(* strings.  The characters are the letters, the digits and the ASCII       *)
(* punctuation below; the only white space is the space.                    *)

LowerLetters == <<"a", "b", "c", "d", "e", "f", "g", "h", "i", "j", "k", "l", "m",
                  "n", "o", "p", "q", "r", "s", "t", "u", "v", "w", "x", "y", "z">>
UpperLetters == <<"A", "B", "C", "D", "E", "F", "G", "H", "I", "J", "K", "L", "M",
                  "N", "O", "P", "Q", "R", "S", "T", "U", "V", "W", "X", "Y", "Z">>
DigitChars   == <<"0", "1", "2", "3", "4", "5", "6", "7", "8", "9">>

\* the position of character c in the sequence of characters cs
PositionIn(cs, c) == CHOOSE i \in 1..Len(cs) : cs[i] = c

\* String.prototype.charCodeAt for one character
charCodeAt(c) ==
    IF c \in Range(DigitChars) THEN 47 + PositionIn(DigitChars, c)
    ELSE IF c \in Range(UpperLetters) THEN 64 + PositionIn(UpperLetters, c)
    ELSE IF c \in Range(LowerLetters) THEN 96 + PositionIn(LowerLetters, c)
    ELSE CASE c = " "  -> 32
           [] c = "!"  -> 33
           [] c = "\"" -> 34
           [] c = "&"  -> 38
           [] c = "'"  -> 39
           [] c = "+"  -> 43
           [] c = "-"  -> 45
           [] c = "<"  -> 60
           [] c = "="  -> 61
           [] c = ">"  -> 62
           [] c = "_"  -> 95
           [] c = "|"  -> 124
           [] c = "~"  -> 126

\* String.prototype.toLowerCase
toLowerCase(s) ==
    [i \in 1..Len(s) |->
        IF s[i] \in Range(UpperLetters) THEN LowerLetters[PositionIn(UpperLetters, s[i])]
        ELSE s[i]]

\* String.prototype.includes
includes(hay, needle) ==
    \E k \in 0..(Len(hay) - Len(needle)) : SubSeq(hay, k + 1, k + Len(needle)) = needle

\* String.prototype.startsWith
startsWith(s, prefix) == Len(s) >= Len(prefix) /\ SubSeq(s, 1, Len(prefix)) = prefix

\* String.prototype.endsWith
endsWith(s, suffix) ==
    Len(s) >= Len(suffix) /\ SubSeq(s, Len(s) - Len(suffix) + 1, Len(s)) = suffix

\* the string without its leading white space
RECURSIVE trimStart(_)
trimStart(s) == IF s # <<>> /\ Head(s) = " " THEN trimStart(Tail(s)) ELSE s

\* the string without its trailing white space
RECURSIVE trimEnd(_)
trimEnd(s) ==
    IF s # <<>> /\ s[Len(s)] = " " THEN trimEnd(SubSeq(s, 1, Len(s) - 1)) ELSE s

\* String.prototype.trim
trim(s) == trimEnd(trimStart(s))

\* a < b for two strings: the order of the first code units that differ, a
\* proper prefix being the smaller
RECURSIVE strLess(_, _)
strLess(a, b) ==
    IF b = <<>> THEN FALSE
    ELSE IF a = <<>> THEN TRUE
    ELSE IF Head(a) = Head(b) THEN strLess(Tail(a), Tail(b))
    ELSE charCodeAt(Head(a)) < charCodeAt(Head(b))

\* the value of a string of decimal digits
RECURSIVE decimalValue(_)
decimalValue(ds) ==
    IF ds = <<>> THEN 0
    ELSE decimalValue(SubSeq(ds, 1, Len(ds) - 1)) * 10 + (PositionIn(DigitChars, ds[Len(ds)]) - 1)

\* tryNumber returns null
NotANumber == [finite |-> FALSE, n |-> 0]

\* tryNumber(v): Number(v) when it is finite.  For a string of the
\* characters above without ".", "e", "x", "o", "b" and "I", Number trims the
\* string, reads the empty string as 0 and an optionally signed string of
\* digits as its decimal value, and gives NaN for anything else
tryNumber(v) ==
    LET t == trim(v)
        signed == t # <<>> /\ Head(t) \in {"-", "+"}
        digits == IF signed THEN Tail(t) ELSE t
    IN IF t = <<>> THEN [finite |-> TRUE, n |-> 0]
       ELSE IF digits # <<>> /\ \A i \in 1..Len(digits) : digits[i] \in Range(DigitChars)
            THEN [finite |-> TRUE,
                  n |-> IF signed /\ Head(t) = "-" THEN 0 - decimalValue(digits)
                        ELSE decimalValue(digits)]
            ELSE NotANumber

\* row[field] of a row without that field
Undefined == <<"undefined">>

\* normalizeValue(raw) : raw == null ? "" : String(raw)
normalizeValue(raw) == IF raw = Undefined THEN <<>> ELSE raw

\* row[field]
fieldOf(row, field) == IF field \in DOMAIN row THEN row[field] ELSE Undefined

\* parseValueToken(tok)
parseValueToken(tok) ==
    LET t == trim(tok)
    IN IF \/ (startsWith(t, <<"\"">>) /\ endsWith(t, <<"\"">>))
          \/ (startsWith(t, <<"'">>) /\ endsWith(t, <<"'">>))
       THEN SubSeq(t, 2, Len(t) - 1)
       ELSE t

\* String.prototype.split on a separator of two characters, cur being the
\* piece read so far
RECURSIVE splitOn(_, _, _)
splitOn(s, sep, cur) ==
    IF s = <<>> THEN <<cur>>
    ELSE IF startsWith(s, sep)
         THEN <<cur>> \o splitOn(SubSeq(s, 3, Len(s)), sep, <<>>)
         ELSE splitOn(Tail(s), sep, Append(cur, Head(s)))

\* splitByLogical(expr)
splitByLogical(expr) ==
    LET orParts == splitOn(expr, <<"|", "|">>, <<>>)
    IN [i \in 1..Len(orParts) |-> splitOn(orParts[i], <<"&", "&">>, <<>>)]

\* the comparators, in the order of the alternatives of the regular
\* expression of parseCond
Comparators == <<"==", "!=", ">=", "<=", ">", "<", "~=", "!~=">>

\* the characters of a comparator
comparatorChars(op) ==
    CASE op = "=="  -> <<"=", "=">>
      [] op = "!="  -> <<"!", "=">>
      [] op = ">="  -> <<">", "=">>
      [] op = "<="  -> <<"<", "=">>
      [] op = ">"   -> <<">">>
      [] op = "<"   -> <<"<">>
      [] op = "~="  -> <<"~", "=">>
      [] op = "!~=" -> <<"!", "~", "=">>

\* [a-zA-Z0-9_]
IdentChars == Range(LowerLetters) \cup Range(UpperLetters) \cup Range(DigitChars) \cup {"_"}

\* the longest prefix of s made of identifier characters
RECURSIVE identPrefix(_)
identPrefix(s) ==
    IF s # <<>> /\ Head(s) \in IdentChars THEN <<Head(s)>> \o identPrefix(Tail(s)) ELSE <<>>

\* parseCond returns null
NoCond == [ok |-> FALSE, field |-> <<>>, op |-> "", value |-> <<>>]

\* parseCond(raw): the match of
\* /^\s*([a-zA-Z0-9_]+)\s*(==|!=|>=|<=|>|<|~=|!~=)\s*(.+?)\s*$/ : the field is
\* the identifier after the leading white space, the comparator is the first
\* alternative that is followed by at least one character, and the value is
\* what follows it, which parseValueToken trims
parseCond(raw) ==
    LET s1 == trimStart(raw)
        field == identPrefix(s1)
        s2 == trimStart(SubSeq(s1, Len(field) + 1, Len(s1)))
        fits(k) == /\ startsWith(s2, comparatorChars(Comparators[k]))
                   /\ Len(s2) > Len(comparatorChars(Comparators[k]))
        found == {k \in 1..Len(Comparators) : fits(k)}
    IN IF field = <<>> \/ found = {} THEN NoCond
       ELSE LET k == CHOOSE x \in found : \A y \in found : x <= y
                op == Comparators[k]
                rhs == SubSeq(s2, Len(comparatorChars(op)) + 1, Len(s2))
            IN [ok |-> TRUE, field |-> field, op |-> op, value |-> parseValueToken(rhs)]

\* cmp comparing the two strings whatever they parse as
cmp_stringsOnly(op, left, right) ==
    LET lstr == normalizeValue(left)
        rstr == normalizeValue(right)
    IN CASE op = "==" -> lstr = rstr
         [] op = "!=" -> lstr # rstr
         [] op = ">"  -> strLess(rstr, lstr)
         [] op = "<"  -> strLess(lstr, rstr)
         [] op = ">=" -> ~strLess(lstr, rstr)
         [] op = "<=" -> ~strLess(rstr, lstr)
         [] op = "~=" -> includes(toLowerCase(lstr), toLowerCase(rstr))
         [] op = "!~=" -> ~includes(toLowerCase(lstr), toLowerCase(rstr))
         [] OTHER -> FALSE

\* cmp(op, left, right)
cmp(op, left, right) ==
    LET lstr == normalizeValue(left)
        rstr == normalizeValue(right)
        ln == tryNumber(lstr)
        rn == tryNumber(rstr)
        bothNums == ln.finite /\ rn.finite
    IN IF bothNums
       THEN CASE op = "==" -> ln.n = rn.n
              [] op = "!=" -> ln.n # rn.n
              [] op = ">"  -> ln.n > rn.n
              [] op = "<"  -> ln.n < rn.n
              [] op = ">=" -> ln.n >= rn.n
              [] op = "<=" -> ln.n <= rn.n
              [] op = "~=" -> includes(toLowerCase(lstr), toLowerCase(rstr))
              [] op = "!~=" -> ~includes(toLowerCase(lstr), toLowerCase(rstr))
              [] OTHER -> FALSE
       ELSE CASE op = "==" -> lstr = rstr
              [] op = "!=" -> lstr # rstr
              [] op = ">"  -> strLess(rstr, lstr)
              [] op = "<"  -> strLess(lstr, rstr)
              [] op = ">=" -> ~strLess(lstr, rstr)
              [] op = "<=" -> ~strLess(rstr, lstr)
              [] op = "~=" -> includes(toLowerCase(lstr), toLowerCase(rstr))
              [] op = "!~=" -> ~includes(toLowerCase(lstr), toLowerCase(rstr))
              [] OTHER -> FALSE

\* the inner loop of matchesAdvancedRow from condition k of andGroup: ok
\* after the loop
RECURSIVE andGroupOk(_, _, _)
andGroupOk(row, andGroup, k) ==
    IF k > Len(andGroup) THEN TRUE
    ELSE LET c == parseCond(andGroup[k])
         IN IF ~c.ok THEN FALSE
            ELSE IF ~cmp(c.op, fieldOf(row, c.field), c.value) THEN FALSE
            ELSE andGroupOk(row, andGroup, k + 1)

\* the outer loop of matchesAdvancedRow from group g
RECURSIVE orGroupsMatch(_, _, _)
orGroupsMatch(row, orGroups, g) ==
    IF g > Len(orGroups) THEN FALSE
    ELSE IF andGroupOk(row, orGroups[g], 1) THEN TRUE
    ELSE orGroupsMatch(row, orGroups, g + 1)

\* matchesAdvancedRow with a condition that does not parse failing the
\* whole expression
matchesAdvancedRow_malformedFailsAll(row, expr) ==
    LET orGroups == splitByLogical(expr)
    IN /\ \A g \in 1..Len(orGroups) : \A k \in 1..Len(orGroups[g]) :
              parseCond(orGroups[g][k]).ok
       /\ orGroupsMatch(row, orGroups, 1)

\* matchesAdvancedRow(row, expr)
matchesAdvancedRow(row, expr) == orGroupsMatch(row, splitByLogical(expr), 1)

\* the operator tokens of looksAdvanced
OperatorTokens ==
    {<<"&", "&">>, <<"|", "|">>, <<"=", "=">>, <<"!", "=">>, <<">", "=">>, <<"<", "=">>,
     <<">">>, <<"<">>, <<"~", "=">>, <<"!", "~", "=">>}

\* looksAdvanced(q)
looksAdvanced(q) == \E tok \in OperatorTokens : includes(q, tok)

\* cols: Object.keys(rows[0]), none for an empty table
colsOf(rows) == IF Len(rows) # 0 THEN DOMAIN rows[1] ELSE {}

\* baseIdx: visibleIndex when it is given and not empty, every row otherwise
baseIdx(rows, visibleIndex) ==
    IF Len(visibleIndex) # 0 THEN visibleIndex ELSE Indices(rows)

\* PaginatedEditableTable.filteredIdx
filteredIdx(rows, visibleIndex, query) ==
    LET q == trim(query)
        ql == toLowerCase(q)
        advanced(gi) == matchesAdvancedRow(rows[gi], q)
        freeText(gi) ==
            \E c \in colsOf(rows) :
                includes(toLowerCase(normalizeValue(fieldOf(rows[gi], c))), ql)
    IN IF q = <<>> THEN baseIdx(rows, visibleIndex)
       ELSE IF looksAdvanced(q) THEN SelectSeq(baseIdx(rows, visibleIndex), advanced)
       ELSE SelectSeq(baseIdx(rows, visibleIndex), freeText)

\* a call cmp(op, left, right)
CallCmp ==
    /\ call.fn = "cmp"
    /\ returned = Pending
    /\ returned' = [done |-> TRUE, value |-> cmp(call.op, call.left, call.right)]
    /\ UNCHANGED <<routes, trips, stopTimes, stops, restrictions, selectedStopId,
                   compiled, banner, call, asyncVars, builderVars>>

\* a call matchesAdvancedRow(row, expr)
CallMatchesAdvancedRow ==
    /\ call.fn = "matchesAdvancedRow"
    /\ returned = Pending
    /\ returned' = [done |-> TRUE, value |-> matchesAdvancedRow(call.row, call.expr)]
    /\ UNCHANGED <<routes, trips, stopTimes, stops, restrictions, selectedStopId,
                   compiled, banner, call, asyncVars, builderVars>>

\* a render of PaginatedEditableTable with a query typed in its filter box
RenderTable ==
    /\ call.fn = "PaginatedEditableTable"
    /\ returned = Pending
    /\ returned' = [done |-> TRUE,
                    filteredIdx |-> filteredIdx(call.rows, call.visibleIndex, call.query)]
    /\ UNCHANGED <<routes, trips, stopTimes, stops, restrictions, selectedStopId,
                   compiled, banner, call, asyncVars, builderVars>>

(* Query inputs *)

MaxChars == 2        \* the most characters of a compared value
MaxConds == 3        \* the most conditions of an expression
MaxTableRows == 2    \* the most rows of a filtered table

\* the values compared: the short strings of two digits and a letter, and a
\* zero, a ten, a number with a leading zero, a signed number, a padded
\* number, a lone sign and a capital
CmpValues ==
    SeqsUpTo({"1", "2", "a"}, MaxChars)
    \cup {<<"0">>, <<"1", "0">>, <<"0", "2">>, <<"-", "1">>, <<" ", "2">>, <<"-">>, <<"B">>}

\* the comparators handed to cmp, and one that is none of them
CmpOps == Range(Comparators) \cup {"="}

CmpCalls ==
    [fn : {"cmp"}, op : CmpOps, left : CmpValues \cup {Undefined}, right : CmpValues]

FieldId == <<"i", "d">>
FieldSv == <<"s", "v">>
FieldNm == <<"n", "m">>

\* id == "18"
CondIdIs18 == <<" ", "i", "d", " ", "=", "=", " ", "\"", "1", "8", "\"", " ">>
\* sv==6
CondSvIs6 == <<"s", "v", "=", "=", "6">>
\* id > 2
CondIdOver2 == <<" ", "i", "d", " ", ">", " ", "2", " ">>
\* sv ~= 'a'
CondSvHasA == <<" ", "s", "v", " ", "~", "=", " ", "'", "a", "'">>
\* id = 18, which has no comparator
CondNoComparator == <<" ", "i", "d", " ", "=", " ", "1", "8", " ">>
\* == 6, which has no field
CondNoField == <<" ", "=", "=", " ", "6", " ">>

Conds == {CondIdIs18, CondSvIs6, CondIdOver2, CondSvHasA, CondNoComparator, CondNoField}

\* the rows matched: two with both fields and one without sv
MatchRows ==
    {(FieldId :> <<"1", "8">>) @@ (FieldSv :> <<"6">>),
     (FieldId :> <<"9">>) @@ (FieldSv :> <<"A", "6">>),
     (FieldId :> <<"1", "0">>)}

\* the expression typed: conds[1] joins[1] conds[2] ...
RECURSIVE joinConds(_, _)
joinConds(conds, joins) ==
    IF Len(conds) = 1 THEN conds[1]
    ELSE conds[1] \o joins[1] \o joinConds(Tail(conds), Tail(joins))

AndToken == <<"&", "&">>
OrToken == <<"|", "|">>

\* a call of matchesAdvancedRow; conds and joins record how expr was typed
MatchCall(row, conds, joins) ==
    [fn |-> "matchesAdvancedRow", row |-> row, expr |-> joinConds(conds, joins),
     conds |-> conds, joins |-> joins]

\* the rows of a table: some with the field nm, some without
TableRows ==
    {(FieldId :> v) : v \in {<<"1", "8">>, <<"a">>}}
    \cup {(FieldId :> v) @@ (FieldNm :> w) : v \in {<<"1", "8">>, <<"a">>},
                                              w \in {<<"A", "b">>, <<"1">>}}

\* what is typed in the filter box: nothing, free text, or an expression
Queries ==
    {<<>>, <<" ">>, <<"a">>, <<"A", "B">>, <<" ", "b", " ">>, <<"8">>, <<"8", "a">>,
     <<"i", "d", " ", "=", "=", " ", "1", "8">>, <<"n", "m", "~", "=", "b">>}

\* a render of the table with a query, and with the rows its parent shows
TableCall(rows, visibleIndex, query) ==
    [fn |-> "PaginatedEditableTable", rows |-> rows, visibleIndex |-> visibleIndex,
     query |-> query]

InitQuery ==
    /\ routes = <<>>
    /\ trips = <<>>
    /\ stopTimes = <<>>
    /\ stops = <<>>
    /\ restrictions = <<>>
    /\ selectedStopId = NoStop
    /\ compiled = NotCompiled
    /\ banner = NoBanner
    /\ inflight = NoFlight
    /\ requests = <<>>
    /\ builder = NoBuilder
    /\ builderUi = NoBuilder
    /\ history = <<>>
    /\ lastHash = <<>>
    /\ returned = Pending
    /\ \/ call \in CmpCalls
       \/ \E n \in 1..MaxConds :
             \E row \in MatchRows, conds \in [1..n -> Conds],
                joins \in [1..(n - 1) -> {AndToken, OrToken}] :
                 call = MatchCall(row, conds, joins)
       \/ \E n \in 0..MaxTableRows :
             \E rows \in [1..n -> TableRows], query \in Queries,
                visibleIndex \in {<<>>} \cup {<<i>> : i \in 1..n} :
                 call = TableCall(rows, visibleIndex, query)

NextQuery ==
    \/ CallCmp
    \/ CallMatchesAdvancedRow
    \/ RenderTable

SpecQuery == InitQuery /\ [][NextQuery]_vars

(* Query claims *)

\* the condition parses and the row satisfies it
Holds(row, cond) ==
    LET c == parseCond(cond)
    IN c.ok /\ cmp(c.op, fieldOf(row, c.field), c.value)

\* C18: matchesAdvancedRow is true exactly when, of the groups that the ||
\* of the expression separate, one has every one of its conditions parse and
\* hold of the row, whatever the conditions of the other groups are
C18_OrOfAnds ==
    (call.fn = "matchesAdvancedRow" /\ returned.done) =>
        LET n == Len(call.conds)
            isGroup(a, b) ==
                /\ a <= b
                /\ (a = 1 \/ call.joins[a - 1] = OrToken)
                /\ (b = n \/ call.joins[b] = OrToken)
                /\ \A k \in a..(b - 1) : call.joins[k] = AndToken
        IN returned.value <=>
              \E a, b \in 1..n :
                  isGroup(a, b) /\ \A k \in a..b : Holds(call.row, call.conds[k])

\* an expression matches with a group of two conditions one of which does
\* not parse, because its other group holds
C18_Witness ==
    /\ call.fn = "matchesAdvancedRow"
    /\ returned.done
    /\ returned.value
    /\ call.conds = <<CondIdIs18, CondNoComparator, CondSvIs6>>
    /\ call.joins = <<AndToken, OrToken>>

\* a < b in the order of the code units, position by position
LexLess(a, b) ==
    \E k \in 1..Len(b) :
        /\ k <= Len(a) + 1
        /\ \A i \in 1..(k - 1) : a[i] = b[i]
        /\ (k = Len(a) + 1 \/ charCodeAt(a[k]) < charCodeAt(b[k]))

\* C19: for ==, !=, >, <, >=, <= cmp compares the numbers when both values
\* parse as finite numbers, and the strings otherwise, in lexicographic order
\* for >, <, >=, <=
C19_NumericThenString ==
    (call.fn = "cmp" /\ returned.done
        /\ call.op \in {"==", "!=", ">", "<", ">=", "<="}) =>
        LET l == normalizeValue(call.left)
            r == call.right
            ln == tryNumber(l)
            rn == tryNumber(r)
            numeric == ln.finite /\ rn.finite
            equal == IF numeric THEN ln.n = rn.n ELSE l = r
            less == IF numeric THEN ln.n < rn.n ELSE LexLess(l, r)
            more == IF numeric THEN rn.n < ln.n ELSE LexLess(r, l)
        IN returned.value =
              CASE call.op = "==" -> equal
                [] call.op = "!=" -> ~equal
                [] call.op = ">"  -> more
                [] call.op = "<"  -> less
                [] call.op = ">=" -> more \/ equal
                [] call.op = "<=" -> less \/ equal

\* 10 > "2" has returned true
C19_Witness ==
    /\ call.fn = "cmp"
    /\ returned.done
    /\ call.op = ">"
    /\ call.left = <<"1", "0">>
    /\ call.right = <<"2">>
    /\ returned.value

\* C20: for a query without operator token, a row of the table passes the
\* filter exactly when the lower-cased query is part of the lower-cased
\* value of a field of that row
C20_FreeTextAnyField ==
    (call.fn = "PaginatedEditableTable" /\ returned.done /\ ~looksAdvanced(call.query)) =>
        \A gi \in Range(baseIdx(call.rows, call.visibleIndex)) :
            gi \in Range(returned.filteredIdx)
                <=> \E c \in DOMAIN call.rows[gi] :
                        includes(toLowerCase(call.rows[gi][c]), toLowerCase(trim(call.query)))

----------------------------------------------------------------------------
(* Time codec *)

\* the groups of /^\s*(\d+):(\d{2})(?::(\d{2}))?\s*$/ in t, or no match
matchStoredTime(t) ==
    LET s == trim(t)
        RECURSIVE digitPrefix(_)
        digitPrefix(x) ==
            IF x # <<>> /\ Head(x) \in Digits THEN <<Head(x)>> \o digitPrefix(Tail(x)) ELSE <<>>
        h == digitPrefix(s)
        rest == SubSeq(s, Len(h) + 1, Len(s))
        ok == /\ h # <<>>
              /\ Len(rest) \in {3, 6}
              /\ rest[1] = ":"
              /\ IsDigits(SubSeq(rest, 2, 3))
              /\ (Len(rest) = 6 => rest[4] = ":" /\ IsDigits(SubSeq(rest, 5, 6)))
    IN IF ok
       THEN [ok |-> TRUE, h |-> h, mi |-> SubSeq(rest, 2, 3),
             s |-> IF Len(rest) = 6 THEN SubSeq(rest, 5, 6) ELSE <<>>]
       ELSE [ok |-> FALSE, h |-> <<>>, mi |-> <<>>, s |-> <<>>]

\* uiFromGtfs showing the time as it is stored
uiFromGtfs_asStored(t) == IF t = Undefined \/ t = <<>> THEN <<>> ELSE t

\* uiFromGtfs(t)
uiFromGtfs(t) ==
    IF t = Undefined \/ t = <<>> THEN <<>>
    ELSE LET m == matchStoredTime(t)
         IN IF ~m.ok THEN t ELSE padStart2(m.h) \o <<":">> \o m.mi

\* does s match /^(\d{1,2}):(\d{2})$/
matchHM(s) ==
    LET h == hourLen(s) IN
    /\ Len(s) = h + 3
    /\ IsDigits(SubSeq(s, 1, h))
    /\ s[h + 1] = ":"
    /\ IsDigits(SubSeq(s, h + 2, h + 3))

\* gtfsFromUi(t)
gtfsFromUi(t) ==
    IF t = Undefined \/ t = <<>> THEN <<>>
    ELSE LET trimmed == trim(t)
         IN IF trimmed = <<>> THEN <<>>
            ELSE IF ~matchHM(trimmed) THEN trimmed
            ELSE LET h == hourLen(trimmed)
                 IN padStart2(SubSeq(trimmed, 1, h)) \o <<":">>
                      \o SubSeq(trimmed, h + 2, h + 3) \o <<":", "0", "0">>

\* timeToSeconds returns null
NoSeconds == [null |-> TRUE, sec |-> 0]

\* timeToSeconds(t)
timeToSeconds(t) ==
    IF t = Undefined \/ t = <<>> THEN NoSeconds
    ELSE LET m == matchStoredTime(t)
         IN IF ~m.ok THEN NoSeconds
            ELSE [null |-> FALSE,
                  sec |-> decimalValue(m.h) * 3600 + decimalValue(m.mi) * 60
                          + decimalValue(IF m.s = <<>> THEN <<"0">> ELSE m.s)]

\* isMonotonicNonDecreasing taking an entry without seconds value as 0
isMonotonicNonDecreasing_nullAsZero(times) ==
    LET seq == [i \in 1..Len(times) |-> timeToSeconds(times[i]).sec]
    IN \A i \in 2..Len(seq) : ~(seq[i - 1] > seq[i])

\* isMonotonicNonDecreasing(times)
isMonotonicNonDecreasing(times) ==
    LET all == [i \in 1..Len(times) |-> timeToSeconds(times[i])]
        parsed(v) == ~v.null
        kept == SelectSeq(all, parsed)
        seq == [i \in 1..Len(kept) |-> kept[i].sec]
    IN \A i \in 2..Len(seq) : ~(seq[i - 1] > seq[i])

\* a call gtfsFromUi(t): a time typed in a cell is stored
CallGtfsFromUi ==
    /\ call.fn = "gtfsFromUi"
    /\ returned = Pending
    /\ returned' = [done |-> TRUE, value |-> gtfsFromUi(call.t)]
    /\ UNCHANGED <<routes, trips, stopTimes, stops, restrictions, selectedStopId,
                   compiled, banner, call, asyncVars, builderVars>>

\* the cell is rendered again with what was stored for the time typed
ShowStored ==
    /\ call.fn = "gtfsFromUi"
    /\ returned # Pending
    /\ call' = [fn |-> "uiFromGtfs", t |-> returned.value, typed |-> call.t]
    /\ returned' = Pending
    /\ UNCHANGED <<routes, trips, stopTimes, stops, restrictions, selectedStopId,
                   compiled, banner, asyncVars, builderVars>>

\* a call uiFromGtfs(t)
CallUiFromGtfs ==
    /\ call.fn = "uiFromGtfs"
    /\ returned = Pending
    /\ returned' = [done |-> TRUE, value |-> uiFromGtfs(call.t)]
    /\ UNCHANGED <<routes, trips, stopTimes, stops, restrictions, selectedStopId,
                   compiled, banner, call, asyncVars, builderVars>>

\* a call isMonotonicNonDecreasing(times)
CallIsMonotonic ==
    /\ call.fn = "isMonotonicNonDecreasing"
    /\ returned = Pending
    /\ returned' = [done |-> TRUE, value |-> isMonotonicNonDecreasing(call.times)]
    /\ UNCHANGED <<routes, trips, stopTimes, stops, restrictions, selectedStopId,
                   compiled, banner, call, asyncVars, builderVars>>

(* Time inputs *)

MaxTimeChars == 5    \* the most characters typed in a time cell
MaxTimes == 3        \* the most entries of a list of times

\* what is typed in a time cell
TypedTimes == SeqsUpTo({"0", "9", ":", " "}, MaxTimeChars)

\* the entries of a list of times: missing, blank, not a time, and times
\* with and without seconds, padded or not
ListedTimes ==
    {Undefined, <<>>, <<"x">>, <<"0", ":", "0", "0">>, <<"9", ":", "0", "5">>,
     <<" ", "9", ":", "0", "0", " ">>, <<"0", "9", ":", "0", "5", ":", "3", "0">>,
     <<"1", "0", ":", "0", "0">>}

InitTimes ==
    /\ routes = <<>>
    /\ trips = <<>>
    /\ stopTimes = <<>>
    /\ stops = <<>>
    /\ restrictions = <<>>
    /\ selectedStopId = NoStop
    /\ compiled = NotCompiled
    /\ banner = NoBanner
    /\ inflight = NoFlight
    /\ requests = <<>>
    /\ builder = NoBuilder
    /\ builderUi = NoBuilder
    /\ history = <<>>
    /\ lastHash = <<>>
    /\ returned = Pending
    /\ \/ \E t \in TypedTimes : call = [fn |-> "gtfsFromUi", t |-> t]
       \/ \E times \in SeqsUpTo(ListedTimes, MaxTimes) :
             call = [fn |-> "isMonotonicNonDecreasing", times |-> times]

NextTimes ==
    \/ CallGtfsFromUi
    \/ ShowStored
    \/ CallUiFromGtfs
    \/ CallIsMonotonic

SpecTimes == InitTimes /\ [][NextTimes]_vars

(* Time claims *)

\* one or two digits, a colon, two digits
ValidDisplayTime(d) ==
    /\ Len(d) \in {4, 5}
    /\ d[Len(d) - 2] = ":"
    /\ \A i \in 1..Len(d) : i # Len(d) - 2 => d[i] \in Digits

\* C21: a valid display time that is stored and shown again is shown with
\* its hour padded to two digits and its minutes as typed, and the blank
\* display value is shown blank
C21_TimeRoundTrip ==
    (call.fn = "uiFromGtfs" /\ returned # Pending) =>
        /\ ValidDisplayTime(call.typed) =>
              returned.value = (IF Len(call.typed) = 4 THEN <<"0">> ELSE <<>>) \o call.typed
        /\ call.typed = <<>> => returned.value = <<>>

\* 9:09 has been stored as 09:09:00 and shown as 09:09
C21_Witness ==
    /\ call.fn = "uiFromGtfs"
    /\ returned # Pending
    /\ call.typed = <<"9", ":", "0", "9">>
    /\ call.t = <<"0", "9", ":", "0", "9", ":", "0", "0">>
    /\ returned.value = <<"0", "9", ":", "0", "9">>

\* the seconds values of the entries of times that have one, in order
ParsedSeconds(times) ==
    LET hasValue(i) == ~timeToSeconds(times[i]).null
        at == SelectSeq(Indices(times), hasValue)
    IN [k \in 1..Len(at) |-> timeToSeconds(times[at[k]]).sec]

\* C22: isMonotonicNonDecreasing is false exactly when, among the seconds
\* values of the entries that have one, a value is smaller than the one
\* before it; entries without value alone never make it false
C22_MonotonicSkipsBlanks ==
    (call.fn = "isMonotonicNonDecreasing" /\ returned # Pending) =>
        LET secs == ParsedSeconds(call.times)
        IN /\ ~returned.value <=> \E i \in 2..Len(secs) : secs[i] < secs[i - 1]
           /\ Len(secs) <= 1 => returned.value

\* a list with a blank entry between two times in order has passed, and so
\* would it fail if the blank counted as 0
C22_Witness ==
    /\ call.fn = "isMonotonicNonDecreasing"
    /\ returned # Pending
    /\ call.times = <<<<"9", ":", "0", "5">>, <<>>, <<"1", "0", ":", "0", "0">>>>
    /\ returned.value

----------------------------------------------------------------------------
(* Time edits *)

\* the first row of rows with that trip_id and stop_id, 0 when there is none
firstMatch(rows, trip_id, stop_id) ==
    LET matching == {i \in 1..Len(rows) :
                        rows[i].trip_id = trip_id /\ rows[i].stop_id = stop_id}
    IN IF matching = {} THEN 0 ELSE CHOOSE i \in matching : \A j \in matching : i <= j

\* Math.max(...seqs) of a list that is not empty
maxOf(seqs) == CHOOSE m \in Range(seqs) : \A x \in Range(seqs) : x <= m

\* handleEditTime numbering the new row by the count of the trip's rows
handleEditTime_countPlusOne(prev, trip_id, stop_id, newTime) ==
    LET at == firstMatch(prev, trip_id, stop_id)
        ofTrip(r) == r.trip_id = trip_id
        tripRows == SelectSeq(prev, ofTrip)
    IN IF newTime = <<>> \/ trim(newTime) = <<>>
       THEN IF at = 0 THEN prev
            ELSE [prev EXCEPT ![at].departure_time = <<>>, ![at].arrival_time = <<>>]
       ELSE IF at # 0
            THEN [prev EXCEPT ![at].departure_time = newTime,
                              ![at].arrival_time = IF @ = <<>> THEN newTime ELSE @]
            ELSE Append(prev, StopTime(trip_id, stop_id, Len(tripRows) + 1, newTime, newTime))

\* the updater handleEditTime(trip_id, stop_id, newTime) gives to
\* setStopTimes, applied to prev
handleEditTime(prev, trip_id, stop_id, newTime) ==
    LET at == firstMatch(prev, trip_id, stop_id)
        ofTrip(r) == r.trip_id = trip_id
        tripRows == SelectSeq(prev, ofTrip)
        seqs == [i \in 1..Len(tripRows) |-> num(tripRows[i].stop_sequence)]
        newSeq == (IF Len(seqs) # 0 THEN maxOf(seqs) ELSE 0) + 1
    IN IF newTime = <<>> \/ trim(newTime) = <<>>
       THEN IF at = 0 THEN prev
            ELSE [prev EXCEPT ![at].departure_time = <<>>, ![at].arrival_time = <<>>]
       ELSE IF at # 0
            THEN [prev EXCEPT ![at].departure_time = newTime,
                              ![at].arrival_time = IF @ = <<>> THEN newTime ELSE @]
            ELSE Append(prev, StopTime(trip_id, stop_id, newSeq, newTime, newTime))

\* what is typed in a cell of the matrix
EditedTimes == {<<>>, <<" ">>, <<"9", ":", "3", "0">>}

\* onEditTime of the matrix:
\* handleEditTime(trip_id, stop_id, gtfsFromUi(newUiTime))
editTime(trip_id, stop_id, newUiTime) ==
    /\ stopTimes' = handleEditTime(stopTimes, trip_id, stop_id, gtfsFromUi(newUiTime))
    /\ UNCHANGED <<routes, trips, stops, restrictions, selectedStopId, compiled,
                   banner, call, returned, asyncVars, builderVars>>

HandleEditTime ==
    \E i \in 1..Len(trips), stop_id \in Range(stops), newUiTime \in EditedTimes :
        editTime(trips[i].trip_id, stop_id, newUiTime)

MaxLoadedRows == 2    \* the most rows the loaded stop_times.txt holds

\* the rows of the loaded stop_times.txt: rows of T1 at either stop, numbered
\* 1 or 3, without times or with both
LoadedRows ==
    {StopTime(T1, s, q, tt, tt) : s \in {StopA, StopB}, q \in {1, 3}, tt \in {Blank, FullHMS}}

InitEditTime ==
    /\ routes = <<R1>>
    /\ stops = <<StopA, StopB>>
    /\ selectedStopId = NoStop
    /\ trips = <<Trip(T1, R1), Trip(T2, R1)>>
    /\ stopTimes \in SeqsUpTo(LoadedRows, MaxLoadedRows)
    /\ restrictions = <<>>
    /\ compiled = NotCompiled
    /\ banner = NoBanner
    /\ inflight = NoFlight
    /\ requests = <<>>
    /\ builder = NoBuilder
    /\ builderUi = NoBuilder
    /\ history = <<>>
    /\ lastHash = <<>>
    /\ call = NoCall
    /\ returned = Pending

NextEditTime == HandleEditTime

SpecEditTime == InitEditTime /\ [][NextEditTime]_vars

----------------------------------------------------------------------------
(* Time edit claims *)

\* no two rows of one trip have the same stop_sequence
SequencesUnique(rows) ==
    \A i, j \in 1..Len(rows) :
        (rows[i].trip_id = rows[j].trip_id /\ rows[i].stop_sequence = rows[j].stop_sequence)
            => i = j

\* the stop_sequence values of the rows of a trip
SequencesOf(rows, trip_id) ==
    {rows[i].stop_sequence : i \in {j \in 1..Len(rows) : rows[j].trip_id = trip_id}}

\* C28: a step handleEditTime(trip_id, stop_id, t) keeps the stop_sequence
\* values of every trip distinct if they were; with a blank t the rows stay
\* as they are but for the first row of (trip_id, stop_id), whose two times
\* become blank; with another t that row gets t as departure, and as arrival
\* if its arrival was blank, and nothing else changes; when there is no such
\* row one row is appended, numbered one more than the largest stop_sequence
\* of the trip, or 1 when the trip has no row
C28_EditTimeOneRow ==
    [][\A i \in 1..Len(trips), stop_id \in Range(stops), newUiTime \in EditedTimes :
        LET trip_id == trips[i].trip_id
            t == gtfsFromUi(newUiTime)
            at == firstMatch(stopTimes, trip_id, stop_id)
            seqs == SequencesOf(stopTimes, trip_id)
        IN editTime(trip_id, stop_id, newUiTime) =>
            /\ SequencesUnique(stopTimes) => SequencesUnique(stopTimes')
            /\ \A k \in 1..Len(stopTimes) :
                  /\ k <= Len(stopTimes')
                  /\ k # at => stopTimes'[k] = stopTimes[k]
                  /\ stopTimes'[k].stop_sequence = stopTimes[k].stop_sequence
            /\ (t = <<>> /\ at = 0) => stopTimes' = stopTimes
            /\ (t = <<>> /\ at # 0) =>
                  /\ Len(stopTimes') = Len(stopTimes)
                  /\ stopTimes'[at] = [stopTimes[at] EXCEPT !.arrival_time = <<>>,
                                                            !.departure_time = <<>>]
            /\ (t # <<>> /\ at # 0) =>
                  /\ Len(stopTimes') = Len(stopTimes)
                  /\ stopTimes'[at].departure_time = t
                  /\ stopTimes'[at].arrival_time =
                        (IF stopTimes[at].arrival_time = <<>> THEN t
                         ELSE stopTimes[at].arrival_time)
                  /\ stopTimes'[at].trip_id = trip_id
                  /\ stopTimes'[at].stop_id = stop_id
            /\ (t # <<>> /\ at = 0) =>
                  /\ Len(stopTimes') = Len(stopTimes) + 1
                  /\ stopTimes'[Len(stopTimes')] =
                        StopTime(trip_id, stop_id,
                                 IF seqs = {} THEN 1
                                 ELSE 1 + CHOOSE m \in seqs : \A x \in seqs : x <= m,
                                 t, t)]_vars

\* T1 was loaded with one row, numbered 3 and without times; a time typed
\* at its other stop has appended a row numbered 4, and a time typed for T2
\* a row numbered 1
C28_Witness ==
    /\ Len(stopTimes) = 3
    /\ stopTimes[1] = StopTime(T1, StopA, 3, Blank, Blank)
    /\ stopTimes[2].trip_id = T1 /\ stopTimes[2].stop_sequence = 4
    /\ stopTimes[3].trip_id = T2 /\ stopTimes[3].stop_sequence = 1
    /\ stopTimes[3].departure_time = <<"0", "9", ":", "3", "0", ":", "0", "0">>

----------------------------------------------------------------------------
(* Builder *)

\* The rows of agency.txt, calendar.txt, stops.txt and routes.txt are
\* modelled by their ids; a row of trips.txt and of stop_times.txt has the
\* fields the builder gives it.

historyLimit == 3       \* the most snapshots historyRef keeps (50 in the builder)

MaxBuilderRows == 2     \* the most rows the builder's stop_times table is grown to

\* String(n) of an integer n >= 0
RECURSIVE decimalDigits(_)
decimalDigits(n) ==
    IF n < 10 THEN <<DigitChars[n + 1]>>
    ELSE Append(decimalDigits(n \div 10), DigitChars[(n % 10) + 1])

\* hhmmss.split(":"), cur being the piece read so far
RECURSIVE splitColons(_, _)
splitColons(s, cur) ==
    IF s = <<>> THEN <<cur>>
    ELSE IF Head(s) = ":" THEN <<cur>> \o splitColons(Tail(s), <<>>)
    ELSE splitColons(Tail(s), Append(cur, Head(s)))

\* timeAddMinutes(hhmmss, minutes) for a time whose pieces are digits
timeAddMinutes(hhmmss, minutes) ==
    LET parts == splitColons(hhmmss, <<>>)
        h     == decimalValue(parts[1])
        m     == decimalValue(parts[2])
        s     == IF Len(parts) >= 3 THEN decimalValue(parts[3]) ELSE 0
        total == h * 60 + m + minutes
    IN padStart2(decimalDigits(total \div 60)) \o <<":">>
         \o padStart2(decimalDigits(total % 60)) \o <<":">>
         \o padStart2(decimalDigits(s))

\* the FeedState `empty` of resetAll, which is also the state of a builder
\* opened without a saved project
EmptyFeed ==
    [agencies  |-> <<[agency_id |-> <<"agency_1">>]>>,
     stops     |-> <<>>,
     routes    |-> <<>>,
     services  |-> <<[service_id |-> <<"WKDY">>]>>,
     trips     |-> <<>>,
     stopTimes |-> <<>>,
     shapePts  |-> <<>>]

\* a project saved with one stop and one route and nothing else
SavedFeed ==
    [EmptyFeed EXCEPT !.stops  = <<[uid |-> <<"u1">>, stop_id |-> <<"S_001">>]>>,
                      !.routes = <<[route_id |-> <<"R_001">>]>>]

\* the text of the rows of a table, the fields of a row in the order keys
stringifyRows(rows, keys) ==
    <<"[">> \o Flatten([i \in 1..Len(rows) |->
                 <<"{">> \o Flatten([k \in 1..Len(keys) |->
                                <<keys[k], ":", rows[i][keys[k]], ",">>]) \o <<"}">>])
          \o <<"]">>

\* JSON.stringify(snapshot) of a FeedState
stringify(snapshot) ==
    <<"agencies">> \o stringifyRows(snapshot.agencies, <<"agency_id">>)
    \o <<"stops">> \o stringifyRows(snapshot.stops, <<"uid", "stop_id">>)
    \o <<"routes">> \o stringifyRows(snapshot.routes, <<"route_id">>)
    \o <<"services">> \o stringifyRows(snapshot.services, <<"service_id">>)
    \o <<"trips">> \o stringifyRows(snapshot.trips, <<"route_id", "service_id", "trip_id">>)
    \o <<"stopTimes">> \o stringifyRows(snapshot.stopTimes,
           <<"trip_id", "stop_id", "arrival_time", "departure_time", "stop_sequence">>)
    \o <<"shapePts">> \o stringifyRows(snapshot.shapePts, <<"shape_id">>)

\* the effect "push to history on meaningful changes", run after a render
\* with the tables `snapshot`, on historyRef.current h and lastHashRef.current
\* hash
pushToHistory(h, hash, snapshot) ==
    IF stringify(snapshot) # hash
    THEN LET pushed == Append(h, snapshot)
         IN [history  |-> IF Len(pushed) > historyLimit THEN Tail(pushed) ELSE pushed,
             lastHash |-> stringify(snapshot)]
    ELSE [history |-> h, lastHash |-> hash]

\* a handler has set the tables to `tables`: the render and its effect
setTables(tables) ==
    LET after == pushToHistory(history, lastHash, tables)
    IN /\ builder' = tables
       /\ history' = after.history
       /\ lastHash' = after.lastHash

\* undoOne leaving lastHashRef as it is
undoOne_keepHash ==
    IF Len(history) < 2 THEN UNCHANGED <<builder, history, lastHash>>
    ELSE LET popped == SubSeq(history, 1, Len(history) - 1)
             prev   == popped[Len(popped)]
             after  == pushToHistory(popped, lastHash, prev)
         IN /\ builder' = prev
            /\ history' = after.history
            /\ lastHash' = after.lastHash

\* undoOne(), with the render that follows and its effect
undoOne ==
    IF Len(history) < 2 THEN UNCHANGED <<builder, history, lastHash>>
    ELSE LET popped == SubSeq(history, 1, Len(history) - 1)
             prev   == popped[Len(popped)]
             after  == pushToHistory(popped, stringify(prev), prev)
         IN /\ builder' = prev
            /\ history' = after.history
            /\ lastHash' = after.lastHash

\* the Undo button and Ctrl/Cmd+Z
UndoOne ==
    /\ builder # NoBuilder
    /\ undoOne
    /\ UNCHANGED <<routes, trips, stopTimes, stops, restrictions, selectedStopId,
                   compiled, banner, call, returned, asyncVars, builderUi>>

\* resetAll(), confirmed
BuilderResetAll ==
    /\ builder # NoBuilder
    /\ builder' = EmptyFeed
    /\ LET after == pushToHistory(<<EmptyFeed>>, stringify(EmptyFeed), EmptyFeed)
       IN history' = after.history /\ lastHash' = after.lastHash
    /\ banner' = [kind |-> "info", text |-> <<"Project reset.">>]
    /\ UNCHANGED <<routes, trips, stopTimes, stops, restrictions, selectedStopId,
                   compiled, call, returned, asyncVars, builderUi>>

\* the route select: setSelectedRoute(e.target.value)
SelectRoute ==
    /\ builder # NoBuilder
    /\ \E i \in 1..Len(builder.routes) :
          builderUi' = [builderUi EXCEPT !.selectedRoute = builder.routes[i].route_id]
    /\ UNCHANGED <<routes, trips, stopTimes, stops, restrictions, selectedStopId,
                   compiled, banner, call, returned, asyncVars, builder, history, lastHash>>

\* the ids `T_${uuidv4().slice(0, 8)}` gives; an id is given once
TripUuids == {<<"T_1">>, <<"T_2">>}

\* addTrip()
AddTrip ==
    /\ builder # NoBuilder
    /\ builderUi.selectedRoute # <<>>
    /\ \E id \in TripUuids :
          /\ \A i \in 1..Len(builder.trips) : builder.trips[i].trip_id # id
          /\ setTables([builder EXCEPT !.trips =
                 Append(@, [route_id |-> builderUi.selectedRoute,
                            service_id |-> <<"WKDY">>, trip_id |-> id])])
          /\ builderUi' = [builderUi EXCEPT !.selectedTrip = id]
    /\ UNCHANGED <<routes, trips, stopTimes, stops, restrictions, selectedStopId,
                   compiled, banner, call, returned, asyncVars>>

\* deleteTrip(trip_id)
deleteTrip(trip_id) ==
    LET otherTrip(x) == x.trip_id # trip_id
    IN /\ setTables([builder EXCEPT !.trips = SelectSeq(@, otherTrip),
                                    !.stopTimes = SelectSeq(@, otherTrip)])
       /\ builderUi' = IF builderUi.selectedTrip = trip_id
                       THEN [builderUi EXCEPT !.selectedTrip = <<>>] ELSE builderUi
       /\ UNCHANGED <<routes, trips, stopTimes, stops, restrictions, selectedStopId,
                      compiled, banner, call, returned, asyncVars>>

BuilderDeleteTrip ==
    /\ builder # NoBuilder
    /\ \E i \in 1..Len(builder.trips) : deleteTrip(builder.trips[i].trip_id)

\* addStopTime numbering the new row by the number of rows of the trip
addStopTime_countPlusOne(st, trip_id, stop_id) ==
    LET rows == stopTimesByTrip(st, trip_id)
        seq  == Len(rows) + 1
        base == IF rows # <<>> THEN st[rows[Len(rows)]].departure_time
                ELSE <<"0", "8", ":", "0", "0", ":", "0", "0">>
        next == timeAddMinutes(base, 5)
    IN Append(st, StopTime(trip_id, stop_id, seq, base, next))

\* the table addStopTime(trip_id, stop_id) sets, called from a render whose
\* stopTimes is st
addStopTime(st, trip_id, stop_id) ==
    LET rows == stopTimesByTrip(st, trip_id)
        seq  == maxOf(<<0>> \o [i \in 1..Len(rows) |-> st[rows[i]].stop_sequence]) + 1
        base == IF rows # <<>> THEN st[rows[Len(rows)]].departure_time
                ELSE <<"0", "8", ":", "0", "0", ":", "0", "0">>
        next == timeAddMinutes(base, 5)
    IN Append(st, StopTime(trip_id, stop_id, seq, base, next))

\* the latest departure a row is added with, in seconds: the one of row
\* MaxBuilderRows of a trip that was filled without a removal
LatestDeparture == 8 * 3600 + 5 * 60 * MaxBuilderRows

\* the stop select of a trip: addStopTime(t.trip_id, e.target.value)
selectStopToAdd(trip_id, stop_id) ==
    LET added == addStopTime(builder.stopTimes, trip_id, stop_id)
    IN /\ builder # NoBuilder
       /\ Len(builder.stopTimes) < MaxBuilderRows
       /\ timeToSeconds(added[Len(added)].departure_time).sec <= LatestDeparture
       /\ setTables([builder EXCEPT !.stopTimes = added])
       /\ UNCHANGED <<routes, trips, stopTimes, stops, restrictions, selectedStopId,
                      compiled, banner, call, returned, asyncVars, builderUi>>

AddStopTime ==
    \E i \in 1..Len(builder.trips), j \in 1..Len(builder.stops) :
        selectStopToAdd(builder.trips[i].trip_id, builder.stops[j].stop_id)

\* removeStopTime without the renumbering of the later rows
removeStopTime_noRenumber(st, trip_id, seq) ==
    LET kept(row) == ~(row.trip_id = trip_id /\ row.stop_sequence = seq)
    IN SelectSeq(st, kept)

\* the table removeStopTime(trip_id, seq) sets from the table st
removeStopTime(st, trip_id, seq) ==
    LET kept(row) == ~(row.trip_id = trip_id /\ row.stop_sequence = seq)
        rest == SelectSeq(st, kept)
    IN [i \in 1..Len(rest) |->
          IF rest[i].trip_id = trip_id /\ rest[i].stop_sequence > seq
          THEN [rest[i] EXCEPT !.stop_sequence = @ - 1] ELSE rest[i]]

\* the button of a row: removeStopTime(t.trip_id, st.stop_sequence)
clickRemoveStopTime(trip_id, seq) ==
    /\ builder # NoBuilder
    /\ setTables([builder EXCEPT !.stopTimes = removeStopTime(@, trip_id, seq)])
    /\ UNCHANGED <<routes, trips, stopTimes, stops, restrictions, selectedStopId,
                   compiled, banner, call, returned, asyncVars, builderUi>>

RemoveStopTime ==
    \E i \in 1..Len(builder.stopTimes) :
        clickRemoveStopTime(builder.stopTimes[i].trip_id, builder.stopTimes[i].stop_sequence)

\* the builder after hydration and the first run of the history effect,
\* without a saved project or with one
InitBuilder ==
    /\ routes = <<>>
    /\ trips = <<>>
    /\ stopTimes = <<>>
    /\ stops = <<>>
    /\ restrictions = <<>>
    /\ selectedStopId = NoStop
    /\ compiled = NotCompiled
    /\ banner = NoBanner
    /\ inflight = NoFlight
    /\ requests = <<>>
    /\ call = NoCall
    /\ returned = Pending
    /\ builderUi = [selectedRoute |-> <<>>, selectedTrip |-> <<>>]
    /\ \E saved \in {EmptyFeed, SavedFeed} :
          /\ builder = saved
          /\ history = pushToHistory(<<>>, <<>>, saved).history
          /\ lastHash = pushToHistory(<<>>, <<>>, saved).lastHash

NextBuilder ==
    \/ SelectRoute
    \/ AddTrip
    \/ BuilderDeleteTrip
    \/ AddStopTime
    \/ RemoveStopTime
    \/ UndoOne
    \/ BuilderResetAll

SpecBuilder == InitBuilder /\ [][NextBuilder]_vars

----------------------------------------------------------------------------
(* Builder claims *)

\* C29: the last snapshot of the undo history is the tables as they are, and
\* the history holds at most historyLimit snapshots; a step undoOne with two
\* snapshots or more drops the last one and sets the tables to the one
\* before it, which stays the last one, and a step undoOne with fewer
\* changes neither the tables nor the history
C29_UndoHistory ==
    /\ [](builder # NoBuilder =>
            /\ Len(history) \in 1..historyLimit
            /\ history[Len(history)] = builder)
    /\ [][UndoOne =>
            IF Len(history) >= 2
            THEN /\ history' = SubSeq(history, 1, Len(history) - 1)
                 /\ builder' = history[Len(history) - 1]
            ELSE UNCHANGED <<builder, history, lastHash>>]_vars

\* the trip that was added is still the selected one, its table and its
\* snapshot are gone: the trip was added and the addition undone
C29_Witness ==
    /\ builder = SavedFeed
    /\ history = <<SavedFeed>>
    /\ builderUi.selectedTrip # <<>>

\* the rows of one trip
RowsOfTrip(rows, trip_id) == RowsOfTrips(rows, {trip_id})

\* the trips that have rows
TripsWithRows(rows) == {rows[i].trip_id : i \in 1..Len(rows)}

\* C30: the stop_sequence values of the rows of every trip of the builder
\* are 1..N for a trip of N rows; a step addStopTime appends one row, numbered
\* one more than the largest stop_sequence of its trip, and changes no other
\* row; a step removeStopTime(trip, seq) removes the row numbered seq of the
\* trip, lowers by one the stop_sequence of the rows of the trip numbered
\* above seq and changes no row of another trip
C30_BuilderSequencesDense ==
    /\ [](builder # NoBuilder =>
            \A tid \in TripsWithRows(builder.stopTimes) :
                /\ SequencesOf(builder.stopTimes, tid)
                      = 1..Len(RowsOfTrip(builder.stopTimes, tid))
                /\ SequencesUnique(builder.stopTimes))
    /\ [][\A i \in 1..Len(builder.trips), j \in 1..Len(builder.stops) :
            LET tid == builder.trips[i].trip_id
                old == builder.stopTimes
            IN selectStopToAdd(tid, builder.stops[j].stop_id) =>
                /\ Len(builder'.stopTimes) = Len(old) + 1
                /\ SubSeq(builder'.stopTimes, 1, Len(old)) = old
                /\ builder'.stopTimes[Len(old) + 1].trip_id = tid
                /\ builder'.stopTimes[Len(old) + 1].stop_sequence
                      = Len(RowsOfTrip(old, tid)) + 1
                /\ \A x \in SequencesOf(old, tid) :
                      x < builder'.stopTimes[Len(old) + 1].stop_sequence]_vars
    /\ [][\A i \in 1..Len(builder.stopTimes) :
            LET tid == builder.stopTimes[i].trip_id
                seq == builder.stopTimes[i].stop_sequence
                old == builder.stopTimes
                notRemoved(row) == ~(row.trip_id = tid /\ row.stop_sequence = seq)
                rest == SelectSeq(old, notRemoved)
            IN clickRemoveStopTime(tid, seq) =>
                /\ Len(builder'.stopTimes) = Len(old) - 1
                /\ Len(rest) = Len(old) - 1
                /\ \A k \in 1..Len(rest) :
                      IF rest[k].trip_id = tid /\ rest[k].stop_sequence > seq
                      THEN builder'.stopTimes[k]
                              = [rest[k] EXCEPT !.stop_sequence = rest[k].stop_sequence - 1]
                      ELSE builder'.stopTimes[k] = rest[k]]_vars

\* the only row of a trip is one that was added as its second row: the row
\* before it was removed and it was renumbered
C30_Witness ==
    /\ builder # NoBuilder
    /\ Len(builder.trips) = 2
    /\ Len(builder.stopTimes) = 1
    /\ builder.stopTimes[1].stop_sequence = 1
    /\ builder.stopTimes[1].arrival_time = <<"0", "8", ":", "0", "5", ":", "0", "0">>

----------------------------------------------------------------------------
(* upload-overrides function *)

\* A JSON text is a tuple of tokens: Tok of a punctuation mark or of one of
\* the literals null, true, 0 and 5, and Str(t) for a string literal, t being
\* the text between its quotes (the tokens of a JSON text, or a name).

Tok(t) == [tok |-> t]
Str(t) == [str |-> t]

\* a body, and the event.body of a request without body
Body(text) == [present |-> TRUE, text |-> text]
NoBody == [present |-> FALSE]

\* the value of a field that an object does not have
JsonUndefined == [type |-> "undefined"]

JsonNull == [type |-> "null"]
JsonBoolean(b) == [type |-> "boolean", b |-> b]
JsonNumber(n) == [type |-> "number", n |-> n]
JsonString(t) == [type |-> "string", s |-> t]
JsonObject(fields) == [type |-> "object", fields |-> fields]

\* JSON.parse throws
SyntaxError == [ok |-> FALSE]

\* the value of a text of one token
parseToken(tok) ==
    IF "str" \in DOMAIN tok THEN [ok |-> TRUE, value |-> JsonString(tok.str)]
    ELSE IF tok.tok = "null" THEN [ok |-> TRUE, value |-> JsonNull]
    ELSE IF tok.tok = "true" THEN [ok |-> TRUE, value |-> JsonBoolean(TRUE)]
    ELSE IF tok.tok \in {"0", "5"}
         THEN [ok |-> TRUE, value |-> JsonNumber(decimalValue(<<tok.tok>>))]
    ELSE SyntaxError

\* JSON.parse(text) for the texts of at most one value, {} and
\* {"content": value}
JSONparse(text) ==
    IF Len(text) = 1 THEN parseToken(text[1])
    ELSE IF text = <<Tok("{"), Tok("}")>> THEN [ok |-> TRUE, value |-> JsonObject(<<>>)]
    ELSE IF /\ Len(text) = 5
            /\ <<text[1], text[2], text[3], text[5]>>
                  = <<Tok("{"), Str(<<"content">>), Tok(":"), Tok("}")>>
            /\ parseToken(text[4]).ok
         THEN [ok |-> TRUE, value |-> JsonObject([k \in {"content"} |-> parseToken(text[4]).value])]
    ELSE SyntaxError

\* is v falsy
falsy(v) ==
    \/ v.type = "undefined"
    \/ v.type = "null"
    \/ (v.type = "boolean" /\ ~v.b)
    \/ (v.type = "number" /\ v.n = 0)
    \/ (v.type = "string" /\ v.s = <<>>)

\* String(v) for a value that is not falsy
String(v) ==
    IF v.type = "string" THEN v.s
    ELSE IF v.type = "number" THEN <<Tok(decimalDigits(v.n)[1])>>
    ELSE IF v.type = "boolean" THEN <<Tok("true")>>
    ELSE <<Tok("[object Object]")>>

\* payload.content of a payload that is not null
contentOf(payload) ==
    IF payload.type = "object" /\ "content" \in DOMAIN payload.fields
    THEN payload.fields["content"] ELSE JsonUndefined

okJson(status) == [done |-> TRUE, statusCode |-> status]

\* the promise of the handler is rejected
Rejected == [done |-> TRUE, statusCode |-> 0]

GetRequest == [method |-> "GET", status |-> 0]

PutRequest(contentText, sha) ==
    [method |-> "PUT", status |-> 0, content |-> contentText, sha |-> sha]

\* handler(event) up to its first await: the response it returns, or the
\* GET it sends.  event holds the request and the environment variables.
handler(event) ==
    IF event.httpMethod = "OPTIONS" THEN [response |-> okJson(200), get |-> FALSE]
    ELSE IF event.httpMethod # "POST" THEN [response |-> okJson(405), get |-> FALSE]
    ELSE IF event.ADMIN_KEY \in {Undefined, <<>>} THEN [response |-> okJson(500), get |-> FALSE]
    ELSE IF event.GITHUB_TOKEN \in {Undefined, <<>>} THEN [response |-> okJson(500), get |-> FALSE]
    ELSE IF event.headerKey \in {Undefined, <<>>} \/ event.headerKey # event.ADMIN_KEY
         THEN [response |-> okJson(401), get |-> FALSE]
    ELSE LET bodyText == IF ~event.body.present \/ event.body.text = <<>>
                         THEN <<Tok("{"), Tok("}")>> ELSE event.body.text
             parsed   == JSONparse(bodyText)
         IN IF ~parsed.ok THEN [response |-> okJson(400), get |-> FALSE]
            ELSE IF parsed.value.type = "null" THEN [response |-> Rejected, get |-> FALSE]
            ELSE LET content == contentOf(parsed.value)
                     contentText == IF falsy(content) THEN <<>> ELSE String(content)
                 IN IF contentText = <<>> THEN [response |-> okJson(400), get |-> FALSE]
                    ELSE IF ~JSONparse(contentText).ok
                         THEN [response |-> okJson(400), get |-> FALSE]
                    ELSE [response |-> Pending, get |-> TRUE, contentText |-> contentText]

\* the function is invoked
Invoke ==
    /\ call.fn = "handler"
    /\ returned = Pending
    /\ inflight = NoFlight
    /\ requests = <<>>
    /\ LET first == handler(call)
       IN IF first.get
          THEN /\ requests' = <<GetRequest>>
               /\ inflight' = [fn |-> "handler", await |-> "getRes",
                               contentText |-> first.contentText]
               /\ returned' = returned
          ELSE /\ returned' = first.response
               /\ UNCHANGED <<inflight, requests>>
    /\ UNCHANGED <<routes, trips, stopTimes, stops, restrictions, selectedStopId,
                   compiled, banner, call, builderVars>>

\* the statuses GitHub answers the GET with, and 0 for a fetch that fails
GetStatuses == {200, 404, 403, 0}

\* the statuses GitHub answers the PUT with, and 0 for a fetch that fails
PutStatuses == {200, 201, 409, 0}

\* `await fetch(...)` of the GET resolves or fails
GetAnswered ==
    /\ inflight.fn = "handler"
    /\ inflight.await = "getRes"
    /\ \E status \in GetStatuses :
          LET answered == [requests EXCEPT ![1].status = status]
          IN IF status \in {200, 404}
             THEN /\ requests' = Append(answered, PutRequest(inflight.contentText, status = 200))
                  /\ inflight' = [inflight EXCEPT !.await = "putRes"]
                  /\ returned' = returned
             ELSE /\ requests' = answered
                  /\ inflight' = NoFlight
                  /\ returned' = IF status = 0 THEN Rejected ELSE okJson(status)
    /\ UNCHANGED <<routes, trips, stopTimes, stops, restrictions, selectedStopId,
                   compiled, banner, call, builderVars>>

\* `await fetch(...)` of the PUT resolves or fails
PutAnswered ==
    /\ inflight.fn = "handler"
    /\ inflight.await = "putRes"
    /\ \E status \in PutStatuses :
          /\ requests' = [requests EXCEPT ![2].status = status]
          /\ returned' = IF status = 0 THEN Rejected
                         ELSE IF status \in 200..299 THEN okJson(200) ELSE okJson(status)
    /\ inflight' = NoFlight
    /\ UNCHANGED <<routes, trips, stopTimes, stops, restrictions, selectedStopId,
                   compiled, banner, call, builderVars>>

\* the values of the content field of a body
ContentTokens ==
    {Tok("null"), Tok("true"), Tok("0"), Tok("5"), Str(<<>>), Str(<<Tok("{")>>),
     Str(<<Tok("{"), Tok("}")>>), Str(<<Tok("5")>>)}

\* the bodies of a request: none, empty, texts that are not JSON, null, a
\* number, a string, an object without content and objects with content
Bodies ==
    {NoBody, Body(<<>>), Body(<<Tok("{")>>), Body(<<Tok("null")>>), Body(<<Tok("5")>>),
     Body(<<Str(<<Tok("{"), Tok("}")>>)>>), Body(<<Tok("{"), Tok("}")>>)}
    \cup {Body(<<Tok("{"), Str(<<"content">>), Tok(":"), tok, Tok("}")>>) :
             tok \in ContentTokens}
    \cup {Body(<<Tok("{"), Str(<<"content">>), Tok(":"), Tok("}")>>)}

\* process.env.ADMIN_KEY, process.env.GITHUB_TOKEN and the x-admin-key header
KeyValues == {Undefined, <<>>, <<"k">>}
HeaderValues == {Undefined, <<>>, <<"k">>, <<"w">>}

InitUpload ==
    /\ routes = <<>>
    /\ trips = <<>>
    /\ stopTimes = <<>>
    /\ stops = <<>>
    /\ restrictions = <<>>
    /\ selectedStopId = NoStop
    /\ compiled = NotCompiled
    /\ banner = NoBanner
    /\ inflight = NoFlight
    /\ requests = <<>>
    /\ builder = NoBuilder
    /\ builderUi = NoBuilder
    /\ history = <<>>
    /\ lastHash = <<>>
    /\ \E httpMethod \in {"OPTIONS", "POST", "GET"}, adminKey \in KeyValues,
          token \in {Undefined, <<"t">>}, headerKey \in HeaderValues, body \in Bodies :
          call = [fn |-> "handler", httpMethod |-> httpMethod, ADMIN_KEY |-> adminKey,
                  GITHUB_TOKEN |-> token, headerKey |-> headerKey, body |-> body]
    /\ returned = Pending

NextUpload ==
    \/ Invoke
    \/ GetAnswered
    \/ PutAnswered

SpecUpload == InitUpload /\ [][NextUpload]_vars

----------------------------------------------------------------------------
(* upload-overrides claims *)

\* the request is a POST with the configured admin key, the token is
\* configured, and the body is JSON whose content field is a string that is
\* not empty and is JSON
UploadAllowed ==
    /\ call.httpMethod = "POST"
    /\ call.ADMIN_KEY \notin {Undefined, <<>>}
    /\ call.GITHUB_TOKEN \notin {Undefined, <<>>}
    /\ call.headerKey = call.ADMIN_KEY
    /\ call.body.present
    /\ JSONparse(call.body.text).ok
    /\ LET payload == JSONparse(call.body.text).value
       IN /\ payload.type = "object"
          /\ "content" \in DOMAIN payload.fields
          /\ payload.fields["content"].type = "string"
          /\ payload.fields["content"].s # <<>>
          /\ JSONparse(payload.fields["content"].s).ok

\* C23: a request is sent to GitHub only for an allowed upload; any other
\* invocation is answered 405, 500, 401 or 400, or 200 when it is an OPTIONS
\* request; and the PUT is sent only after the GET was answered 200 or 404
C23_UploadGate ==
    call.fn = "handler" =>
        /\ requests # <<>> => UploadAllowed
        /\ (~UploadAllowed /\ returned # Pending) =>
              returned.statusCode \in
                  (IF call.httpMethod = "OPTIONS" THEN {200} ELSE {405, 500, 401, 400})
        /\ \A i \in 1..Len(requests) :
              requests[i].method = "PUT" =>
                  /\ i = 2
                  /\ requests[1].method = "GET"
                  /\ requests[1].status \in {200, 404}

====
